---- MODULE Spec2Model ----
(***************************************************************************)
(* A model of go-smart: the agentic tool-calling loop (pkg/graph),         *)
(* the tool registry (pkg/tools), the plugin manager (pkg/plugin) and the  *)
(* session store with its keyword step machine (pkg/conversation), and     *)
(* the model manager (pkg/model).                                          *)
(*                                                                         *)
(* Each subsystem has its own specification over the shared variables:     *)
(*   SpecWorkflow      one goroutine running agentic turns                 *)
(*   SpecWorkflowConc  two goroutines sharing the service's one Workflow   *)
(*   SpecWorkflowCancel  agentic turns whose context may be cancelled      *)
(*   SpecRegistry      the tool registry                                   *)
(*   SpecRegistryConc  two goroutines calling the tool registry            *)
(*   SpecPlugin        the plugin manager                                  *)
(*   SpecPluginFair    the plugin manager under fair scheduling            *)
(*   SpecPluginExec    one goroutine executing plugin functions, another   *)
(*                     loading and unloading plugins                       *)
(*   SpecModelFair     two goroutines calling the model manager, under     *)
(*                     fair scheduling                                     *)
(*   SpecSession       one goroutine running step-machine turns            *)
(*   SpecSessionConc   two goroutines on the same session store            *)
(*   SpecCustomer      the turns of one customer in one session            *)
(*   SpecRemoval       turns of both step machines, the session of a turn  *)
(*                     may be removed while it runs                        *)
(*   SpecSteps         turns of the keyword step machine and of the step   *)
(*                     registry flow on the same sessions                  *)
(*   SpecStore         direct calls on the session store                   *)
(***************************************************************************)
EXTENDS Integers, Sequences, FiniteSets, TLC

\* ------------------------------------------------------------------------
\* Bounds of the model
\* ------------------------------------------------------------------------
\* calls made on the model manager once it is constructed
MaxModelManagerCalls == 3
\* model calls explored over a run of the workflow model
MaxModelCalls == 3
\* model calls explored when two goroutines share the workflow
MaxConcModelCalls == 2
\* turns started over a run of the workflow model
MaxTurns == 2
\* the iteration bound an agentic turn is claimed to respect
MaxIterations == 2
\* turns started over a run of the step machine
MaxSessionTurns == 3
\* turns started when two goroutines run the step machine
MaxConcSessionTurns == 3
\* the latest time the clock reaches
MaxClock == 1
\* direct calls made on the session store
MaxStoreCalls == 4
\* turns of a customer who stays in one session
MaxCustomerTurns == 4
\* registry calls started when two goroutines call the registry
MaxConcRegistryCalls == 3

Threads == {1, 2}
None == "none"
\* the empty text
NoText == <<>>

\* ------------------------------------------------------------------------
\* Tool registry (pkg/tools/registry.go)
\* ------------------------------------------------------------------------
\* tool names used by callers: three default tools, one plugin-style name
\* that is never registered by default, and the empty name
DefaultToolNames == {"order_query_tool", "refund_request_tool", "invoice_tool"}

VARIABLES
    tools,      \* ToolRegistry.tools: name -> tool object
    wstate,     \* Workflow.state, shared by every caller of the Workflow
    wpc,        \* per goroutine: position inside the agentic turn
    wloc,       \* per goroutine: locals of the turn and its history
    wturns,     \* turns started so far
    wcalls,     \* model calls made so far
    rlog,       \* the last two calls made on the registry, oldest first
    rpc,        \* per goroutine: position inside a concurrent registry call
    rloc,       \* per goroutine: that call, its arguments and its result
    rcalls,     \* concurrent registry calls started so far
    plugins,    \* PluginManager.plugins: plugin name -> PluginInfo
    pluginFunctions, \* PluginManager.pluginFunctions: "plugin.tool" -> function
    pmLock,     \* PluginManager.mu: the writer holding it and the readers
    ppc,        \* per goroutine: position inside a plugin manager call
    ploc,       \* per goroutine: the call, its arguments and its result
    plast,      \* the last table update: its call, and the tables before it
    states,     \* StateManager.states: session id -> *ConversationState
    heap,       \* the ConversationState objects, by address
    clock,      \* time.Now()
    spc,        \* per goroutine: position inside a step-machine turn
    sloc,       \* per goroutine: locals of the turn and its history
    sturns,     \* step-machine turns started so far
    mm,         \* ModelManager: its configuration and its current model
    mmLock,     \* ModelManager.mu: the writer holding it and the readers
    mpc,        \* per goroutine: position inside a model manager call
    mloc,       \* per goroutine: the call, its arguments and its result
    mcalls      \* model manager calls started so far

wvars == <<wstate, wpc, wloc, wturns, wcalls>>
pvars == <<plugins, pluginFunctions, pmLock, ppc, ploc, plast>>
svars == <<states, heap, clock, spc, sloc, sturns>>
rvars == <<rlog, rpc, rloc, rcalls>>
mvars == <<mm, mmLock, mpc, mloc, mcalls>>
\* what the agentic loop leaves alone
notWorkflow == <<rvars, pvars, svars, mvars>>
\* what the registry operations leave alone
notRegistry == <<rpc, rloc, rcalls, wvars, pvars, svars, mvars>>
\* what the registry called by several goroutines leaves alone
notRegistryConc == <<rlog, wvars, pvars, svars, mvars>>
\* what the plugin manager leaves alone
notPlugin == <<tools, wvars, rvars, svars, mvars>>
\* what the session store and the step machine leave alone
notSession == <<tools, wvars, rvars, pvars, mvars>>
\* what the model manager leaves alone
notModel == <<tools, wvars, rvars, pvars, svars>>
vars == <<tools, wvars, rvars, pvars, svars, mvars>>

\* NewToolRegistry + registerDefaultTools: the three default tools, each its
\* own object (object 0 of its name)
NewToolManager == [n \in DefaultToolNames |-> [name |-> n, obj |-> 0]]

\* ToolRegistry.GetTool: (tool, exists)
GetTool(reg, name) ==
    IF name \in DOMAIN reg THEN [tool |-> reg[name], exists |-> TRUE]
    ELSE [tool |-> None, exists |-> FALSE]

\* names callers register, look up and remove: the default tools, a name
\* that is not registered by default, and the empty name
RegistryNames == DefaultToolNames \cup {"no_such_tool", ""}

\* the tools callers hand to RegisterTool: nil, or one of two distinct
\* objects of a name
NilTool == [name |-> "", obj |-> -1]
RegistryTools == {NilTool} \cup [name : RegistryNames, obj : {0, 1}]

\* the object registered under a name, -1 when there is none
Bound(reg, name) == IF name \in DOMAIN reg THEN reg[name].obj ELSE -1

\* RegisterTool that replaces an already registered tool
RegisterToolResult_Overwrites(reg, tool) ==
    IF tool = NilTool THEN [reg |-> reg, err |-> "nil"]
    ELSE IF tool.name = "" THEN [reg |-> reg, err |-> "empty_name"]
    ELSE [reg |-> [n \in DOMAIN reg \cup {tool.name} |->
                        IF n = tool.name THEN tool ELSE reg[n]],
          err |-> ""]

\* ToolRegistry.RegisterTool: the registry afterwards and the error
RegisterToolResult(reg, tool) ==
    IF tool = NilTool THEN [reg |-> reg, err |-> "nil"]
    ELSE IF tool.name = "" THEN [reg |-> reg, err |-> "empty_name"]
    ELSE IF tool.name \in DOMAIN reg THEN [reg |-> reg, err |-> "duplicate"]
    ELSE [reg |-> [n \in DOMAIN reg \cup {tool.name} |->
                        IF n = tool.name THEN tool ELSE reg[n]],
          err |-> ""]

\* an UnregisterTool that reports success and keeps the tool
UnregisterToolResult_Keeps(reg, name) ==
    IF name \notin DOMAIN reg THEN [reg |-> reg, err |-> "not_found"]
    ELSE [reg |-> reg, err |-> ""]

\* ToolRegistry.UnregisterTool: the registry afterwards and the error
UnregisterToolResult(reg, name) ==
    IF name \notin DOMAIN reg THEN [reg |-> reg, err |-> "not_found"]
    ELSE [reg |-> [n \in DOMAIN reg \ {name} |-> reg[n]], err |-> ""]

\* ToolRegistry.CallTool: the possible outcomes
CallToolResult(reg, name) ==
    IF name \notin DOMAIN reg THEN {"not_found"} ELSE {"", "tool_failed"}

\* rlog keeps the last two calls
Logged(log, e) ==
    IF Len(log) < 2 THEN Append(log, e) ELSE Append(Tail(log), e)

\* history: the names removed by a successful UnregisterTool and not
\* registered since, before the call that is being logged
Gone(log) == IF log = <<>> THEN {} ELSE log[Len(log)].gone

LogEntry(op, name, obj, prev, err) ==
    [op |-> op, name |-> name, obj |-> obj, prev |-> prev, err |-> err,
     gone |-> CASE op = "unregister" /\ err = "" -> Gone(rlog) \cup {name}
                [] op = "register" /\ err = "" -> Gone(rlog) \ {name}
                [] op = "reload" -> Gone(rlog) \ DefaultToolNames
                [] OTHER -> Gone(rlog)]

\* ToolManager.RegisterTool -> ToolRegistry.RegisterTool
RegisterTool ==
    \E tool \in RegistryTools :
        LET r == RegisterToolResult(tools, tool) IN
        /\ tools' = r.reg
        /\ rlog' = Logged(rlog, LogEntry("register", tool.name, tool.obj,
                                         Bound(tools, tool.name), r.err))
        /\ UNCHANGED notRegistry

\* ToolManager.UnregisterTool -> ToolRegistry.UnregisterTool
UnregisterTool ==
    \E name \in RegistryNames :
        LET r == UnregisterToolResult(tools, name) IN
        /\ tools' = r.reg
        /\ rlog' = Logged(rlog, LogEntry("unregister", name, -1,
                                         Bound(tools, name), r.err))
        /\ UNCHANGED notRegistry

\* ToolManager.GetTool -> ToolRegistry.GetTool
LookupTool ==
    \E name \in RegistryNames :
        /\ rlog' = Logged(rlog, LogEntry("lookup", name,
                        Bound(tools, name), Bound(tools, name),
                        IF GetTool(tools, name).exists THEN "" ELSE "not_found"))
        /\ UNCHANGED <<tools, notRegistry>>

\* ToolManager.CallTool -> ToolRegistry.CallTool
CallTool ==
    \E name \in RegistryNames :
        \E e \in CallToolResult(tools, name) :
            /\ rlog' = Logged(rlog, LogEntry("call", name,
                            Bound(tools, name), Bound(tools, name), e))
            /\ UNCHANGED <<tools, notRegistry>>

\* ToolManager.ReloadTools: Clear, then registerDefaultTools
ReloadTools ==
    /\ tools' = NewToolManager
    /\ rlog' = Logged(rlog, LogEntry("reload", "", -1, -1, ""))
    /\ UNCHANGED notRegistry

NextRegistry ==
    \/ RegisterTool
    \/ UnregisterTool
    \/ LookupTool
    \/ CallTool
    \/ ReloadTools

\* ------------------------------------------------------------------------
\* The registry called by several goroutines: ToolManager.mu is never
\* taken, so the reads and writes of r.tools of two calls interleave
\* ------------------------------------------------------------------------
NoRegistryCall ==
    [op |-> "", name |-> "", obj |-> -1, err |-> "", found |-> -1,
     \* history: the write of a successful RegisterTool replaced a tool that
     \* another call had registered under the name in the meantime
     replaced |-> FALSE]

RGoto(t, pc, loc) ==
    /\ rpc' = [rpc EXCEPT ![t] = pc]
    /\ rloc' = [rloc EXCEPT ![t] = loc]

\* RegisterTool: the nil test, GetName and the empty-name test
ConcRegisterTool(t) ==
    /\ rpc[t] \in {"idle", "done"}
    /\ rcalls < MaxConcRegistryCalls
    /\ rcalls' = rcalls + 1
    /\ \E tool \in RegistryTools :
        LET call == [NoRegistryCall EXCEPT !.op = "register", !.name = tool.name,
                                           !.obj = tool.obj]
        IN IF tool = NilTool THEN RGoto(t, "done", [call EXCEPT !.err = "nil"])
           ELSE IF tool.name = "" THEN RGoto(t, "done", [call EXCEPT !.err = "empty_name"])
           ELSE RGoto(t, "register_exists", call)
    /\ UNCHANGED <<tools, notRegistryConc>>

\* RegisterTool: if _, exists := r.tools[name]; exists
ConcRegisterExists(t) ==
    /\ rpc[t] = "register_exists"
    /\ IF GetTool(tools, rloc[t].name).exists
       THEN RGoto(t, "done", [rloc[t] EXCEPT !.err = "duplicate"])
       ELSE RGoto(t, "register_store", rloc[t])
    /\ UNCHANGED <<tools, rcalls, notRegistryConc>>

\* RegisterTool: r.tools[name] = tool; return nil
ConcRegisterStore(t) ==
    /\ rpc[t] = "register_store"
    /\ tools' = [n \in DOMAIN tools \cup {rloc[t].name} |->
                    IF n = rloc[t].name
                    THEN [name |-> rloc[t].name, obj |-> rloc[t].obj]
                    ELSE tools[n]]
    /\ RGoto(t, "done", [rloc[t] EXCEPT !.replaced = GetTool(tools, rloc[t].name).exists])
    /\ UNCHANGED <<rcalls, notRegistryConc>>

\* UnregisterTool: if _, exists := r.tools[name]; !exists
ConcUnregisterTool(t) ==
    /\ rpc[t] \in {"idle", "done"}
    /\ rcalls < MaxConcRegistryCalls
    /\ rcalls' = rcalls + 1
    /\ \E name \in RegistryNames :
        LET call == [NoRegistryCall EXCEPT !.op = "unregister", !.name = name]
        IN IF GetTool(tools, name).exists
           THEN RGoto(t, "unregister_delete", call)
           ELSE RGoto(t, "done", [call EXCEPT !.err = "not_found"])
    /\ UNCHANGED <<tools, notRegistryConc>>

\* UnregisterTool: delete(r.tools, name); return nil
ConcUnregisterDelete(t) ==
    /\ rpc[t] = "unregister_delete"
    /\ tools' = [n \in DOMAIN tools \ {rloc[t].name} |-> tools[n]]
    /\ RGoto(t, "done", rloc[t])
    /\ UNCHANGED <<rcalls, notRegistryConc>>

\* GetTool: one read of r.tools
ConcGetTool(t) ==
    /\ rpc[t] \in {"idle", "done"}
    /\ rcalls < MaxConcRegistryCalls
    /\ rcalls' = rcalls + 1
    /\ \E name \in RegistryNames :
        RGoto(t, "done",
              [NoRegistryCall EXCEPT !.op = "lookup", !.name = name,
                                     !.found = Bound(tools, name),
                                     !.err = IF GetTool(tools, name).exists
                                             THEN "" ELSE "not_found"])
    /\ UNCHANGED <<tools, notRegistryConc>>

\* two unsynchronised writes of the map r.tools at the same time: the Go
\* runtime may stop the process with "concurrent map writes"
ConcMapWrites ==
    /\ \A t \in Threads : rpc[t] \in {"register_store", "unregister_delete"}
    /\ rpc' = [t \in Threads |-> "fatal"]
    /\ UNCHANGED <<tools, rloc, rcalls, notRegistryConc>>

ConcRegistryStep(t) ==
    \/ ConcRegisterTool(t)
    \/ ConcRegisterExists(t)
    \/ ConcRegisterStore(t)
    \/ ConcUnregisterTool(t)
    \/ ConcUnregisterDelete(t)
    \/ ConcGetTool(t)

NextRegistryConc ==
    \/ \E t \in Threads : ConcRegistryStep(t)
    \/ ConcMapWrites

\* ------------------------------------------------------------------------
\* Plugin manager (pkg/plugin)
\* ------------------------------------------------------------------------
\* names are sequences of characters, so that "plugin.tool" is computed
PluginNames == { <<"m">>, <<"m", ".", "A">> }
PluginPaths == { <<"plugins/m.so">>, <<"plugins/m.A.so">> }

\* what reflection reports of the methods a plugin instance may have:
\* A and B return a tool function, H returns a string, P returns a tool
\* function but has a pointer receiver
ToolFuncType ==
    [Kind |-> "func", In |-> <<"context.Context", "map">>,
     Out |-> <<"map", "error">>]
MethodType(m) ==
    CASE m = <<"A">> -> [Receiver |-> "value", Out |-> <<ToolFuncType>>]
      [] m = <<"B">> -> [Receiver |-> "value", Out |-> <<ToolFuncType>>]
      [] m = <<"H">> -> [Receiver |-> "value",
                         Out |-> <<[Kind |-> "string", In |-> <<>>, Out |-> <<>>]>>]
      [] m = <<"P">> -> [Receiver |-> "pointer", Out |-> <<ToolFuncType>>]

\* what plugin.Open may find at a path
Unopenable == [opens |-> FALSE, entry |-> "none", methods |-> {}]
Instance(ms) == [opens |-> TRUE, entry |-> "func() interface{}", methods |-> ms]
Artifacts ==
    { Unopenable,
      [opens |-> TRUE, entry |-> "none", methods |-> {}],
      [opens |-> TRUE, entry |-> "func() string", methods |-> {}],
      Instance({<<"A">>, <<"B">>, <<"H">>, <<"P">>}),
      Instance({<<"A">>}),
      Instance({<<"H">>}) }

\* the methods in the order reflection lists them (sorted by name)
RECURSIVE SortedMethods(_)
SortedMethods(ms) ==
    IF ms = {} THEN <<>>
    ELSE LET first == CHOOSE m \in ms :
                        \A o \in ms : o = m \/
                            \E a, b \in {"A", "B", "H", "P"} :
                                /\ m = <<a>> /\ o = <<b>>
                                /\ <<a, b>> \in { <<"A", "B">>, <<"A", "H">>,
                                                  <<"A", "P">>, <<"B", "H">>,
                                                  <<"B", "P">>, <<"H", "P">> }
         IN <<first>> \o SortedMethods(ms \ {first})

\* extractTools: the methods of the instance's value (val.Elem() for a
\* pointer) with one result that is a tool function
IsToolMethod(m) ==
    /\ MethodType(m).Receiver = "value"
    /\ Len(MethodType(m).Out) = 1
    /\ MethodType(m).Out[1] = ToolFuncType
ExtractTools(art) ==
    SelectSeq(SortedMethods(art.methods), IsToolMethod)

\* a function name without the plugin name
FuncName_ToolOnly(pluginName, toolName) == toolName

\* fmt.Sprintf("%s.%s", pluginName, tool.Name)
FuncName(pluginName, toolName) == pluginName \o <<".">> \o toolName

Range(seq) == { seq[i] : i \in 1..Len(seq) }

\* the function names of a loaded plugin's tools
FuncNamesOf(info) == { FuncName(info.Name, tn) : tn \in Range(info.Tools) }

Without(f, keys) == [k \in DOMAIN f \ keys |-> f[k]]

\* LoadPlugin between Lock and Unlock: the tables afterwards and the error
LoadPluginResult(pl, fn, name, path, art) ==
    IF name \in DOMAIN pl THEN [plugins |-> pl, funcs |-> fn, err |-> "already_loaded"]
    ELSE IF ~art.opens THEN [plugins |-> pl, funcs |-> fn, err |-> "open_failed"]
    ELSE IF art.entry = "none" THEN [plugins |-> pl, funcs |-> fn, err |-> "no_entry"]
    ELSE IF art.entry # "func() interface{}"
        THEN [plugins |-> pl, funcs |-> fn, err |-> "bad_entry_type"]
    ELSE LET ts == ExtractTools(art)
             info == [Name |-> name, Path |-> path, Tools |-> ts]
             added == { FuncName(name, tn) : tn \in Range(ts) }
         IN [plugins |-> [n \in DOMAIN pl \cup {name} |->
                            IF n = name THEN info ELSE pl[n]],
             funcs |-> [k \in DOMAIN fn \cup added |->
                            IF k \in added THEN <<"func", name, k>> ELSE fn[k]],
             err |-> ""]

\* an UnloadPlugin that reports success for a plugin that is not loaded
UnloadPluginResult_Silent(pl, fn, name) ==
    IF name \notin DOMAIN pl THEN [plugins |-> pl, funcs |-> fn, err |-> ""]
    ELSE [plugins |-> Without(pl, {name}),
          funcs |-> Without(fn, FuncNamesOf(pl[name])),
          err |-> ""]

\* an unload that removes the plugin and leaves its functions in the table
UnloadPluginResult_KeepsFunctions(pl, fn, name) ==
    IF name \notin DOMAIN pl THEN [plugins |-> pl, funcs |-> fn, err |-> "not_loaded"]
    ELSE [plugins |-> Without(pl, {name}), funcs |-> fn, err |-> ""]

\* UnloadPlugin between Lock and Unlock
UnloadPluginResult(pl, fn, name) ==
    IF name \notin DOMAIN pl THEN [plugins |-> pl, funcs |-> fn, err |-> "not_loaded"]
    ELSE [plugins |-> Without(pl, {name}),
          funcs |-> Without(fn, FuncNamesOf(pl[name])),
          err |-> ""]

NoCall ==
    [op |-> "none", name |-> <<>>, path |-> <<>>, err |-> "", caller |-> "api",
     \* LoadAllPlugins: the files of the scan still to load and, as history,
     \* all its files, the names loaded before it, the names it tried and
     \* the names whose LoadPlugin returned nil
     files |-> <<>>, listing |-> <<>>, before |-> {}, attempted |-> {},
     succeeded |-> {},
     \* ExecutePluginFunction: the function GetPluginFunction returned
     fn |-> <<>>]

\* the record of one table update
Update(op, name, path, art, err, pl, fn) ==
    [op |-> op, name |-> name, path |-> path, art |-> art, err |-> err,
     pre |-> [plugins |-> pl, funcs |-> fn]]

PluginIdle(t) == ppc[t] \in {"idle", "done"}
LockFree == pmLock.writer = 0 /\ pmLock.readers = {}

\* a caller starts LoadPlugin(name, path)
CallLoadPlugin(t) ==
    /\ PluginIdle(t)
    /\ \E n \in PluginNames, p \in PluginPaths :
        ploc' = [ploc EXCEPT ![t] =
                    [NoCall EXCEPT !.op = "load", !.name = n, !.path = p]]
    /\ ppc' = [ppc EXCEPT ![t] = "load_lock"]
    /\ UNCHANGED <<notPlugin, plugins, pluginFunctions, pmLock, plast>>

\* LoadPlugin: pm.mu.Lock()
LoadPluginLock(t) ==
    /\ ppc[t] = "load_lock"
    /\ LockFree
    /\ pmLock' = [pmLock EXCEPT !.writer = t]
    /\ ppc' = [ppc EXCEPT ![t] = "load_body"]
    /\ UNCHANGED <<notPlugin, plugins, pluginFunctions, ploc, plast>>

\* LoadPlugin: the body, then the deferred Unlock; when ReloadPlugin made
\* the call, ReloadPlugin then returns as well
LoadPluginBody(t) ==
    /\ ppc[t] = "load_body"
    /\ \E art \in Artifacts :
        LET r == LoadPluginResult(plugins, pluginFunctions,
                                  ploc[t].name, ploc[t].path, art)
        IN /\ plugins' = r.plugins
           /\ pluginFunctions' = r.funcs
           /\ ploc' = [ploc EXCEPT ![t].err =
                    IF ploc[t].caller = "reload" /\ r.err # ""
                    THEN "reload_failed" ELSE r.err]
           /\ plast' = Update(IF ploc[t].caller = "reload"
                                THEN "reload_load" ELSE "load",
                              ploc[t].name, ploc[t].path, art, r.err,
                              plugins, pluginFunctions)
    /\ pmLock' = [pmLock EXCEPT !.writer = 0]
    /\ ppc' = [ppc EXCEPT ![t] = IF ploc[t].caller = "load_all"
                                 THEN "loadall_loop" ELSE "done"]
    /\ UNCHANGED notPlugin

\* a caller starts UnloadPlugin(name)
CallUnloadPlugin(t) ==
    /\ PluginIdle(t)
    /\ \E n \in PluginNames :
        ploc' = [ploc EXCEPT ![t] = [NoCall EXCEPT !.op = "unload", !.name = n]]
    /\ ppc' = [ppc EXCEPT ![t] = "unload_lock"]
    /\ UNCHANGED <<notPlugin, plugins, pluginFunctions, pmLock, plast>>

\* UnloadPlugin: pm.mu.Lock()
UnloadPluginLock(t) ==
    /\ ppc[t] = "unload_lock"
    /\ LockFree
    /\ pmLock' = [pmLock EXCEPT !.writer = t]
    /\ ppc' = [ppc EXCEPT ![t] = "unload_body"]
    /\ UNCHANGED <<notPlugin, plugins, pluginFunctions, ploc, plast>>

\* UnloadPlugin: the body, then the deferred Unlock
UnloadPluginBody(t) ==
    /\ ppc[t] = "unload_body"
    /\ LET r == UnloadPluginResult(plugins, pluginFunctions, ploc[t].name)
       IN /\ plugins' = r.plugins
          /\ pluginFunctions' = r.funcs
          /\ ploc' = [ploc EXCEPT ![t].err = r.err]
          /\ plast' = Update("unload", ploc[t].name, <<>>, Unopenable, r.err,
                             plugins, pluginFunctions)
    /\ pmLock' = [pmLock EXCEPT !.writer = 0]
    /\ ppc' = [ppc EXCEPT ![t] = "done"]
    /\ UNCHANGED notPlugin

\* a caller starts ReloadPlugin(name)
CallReloadPlugin(t) ==
    /\ PluginIdle(t)
    /\ \E n \in PluginNames :
        ploc' = [ploc EXCEPT ![t] = [NoCall EXCEPT !.op = "reload", !.name = n]]
    /\ ppc' = [ppc EXCEPT ![t] = "reload_lock"]
    /\ UNCHANGED <<notPlugin, plugins, pluginFunctions, pmLock, plast>>

\* ReloadPlugin: pm.mu.Lock()
ReloadPluginLock(t) ==
    /\ ppc[t] = "reload_lock"
    /\ LockFree
    /\ pmLock' = [pmLock EXCEPT !.writer = t]
    /\ ppc' = [ppc EXCEPT ![t] = "reload_body"]
    /\ UNCHANGED <<notPlugin, plugins, pluginFunctions, ploc, plast>>

\* ReloadPlugin: up to its call of pm.LoadPlugin, made with the lock held;
\* a plugin that is not loaded is an error (deferred Unlock)
ReloadPluginBody(t) ==
    /\ ppc[t] = "reload_body"
    /\ IF ploc[t].name \notin DOMAIN plugins
       THEN /\ ploc' = [ploc EXCEPT ![t].err = "not_loaded"]
            /\ plast' = Update("reload", ploc[t].name, <<>>, Unopenable,
                               "not_loaded", plugins, pluginFunctions)
            /\ pmLock' = [pmLock EXCEPT !.writer = 0]
            /\ ppc' = [ppc EXCEPT ![t] = "done"]
            /\ UNCHANGED pluginFunctions
       ELSE /\ pluginFunctions' =
                    Without(pluginFunctions, FuncNamesOf(plugins[ploc[t].name]))
            /\ ploc' = [ploc EXCEPT ![t] =
                    [@ EXCEPT !.path = plugins[ploc[t].name].Path,
                              !.caller = "reload"]]
            /\ plast' = Update("reload", ploc[t].name,
                               plugins[ploc[t].name].Path, Unopenable, "",
                               plugins, pluginFunctions)
            /\ ppc' = [ppc EXCEPT ![t] = "load_lock"]
            /\ UNCHANGED pmLock
    /\ UNCHANGED <<notPlugin, plugins>>

\* filepath.Join(pm.pluginsDir, pluginName + ".so")
PluginPath(pluginName) ==
    IF pluginName = <<"m">> THEN <<"plugins/m.so">> ELSE <<"plugins/m.A.so">>

\* what filepath.Glob may return for pluginsDir/*.so, in its sorted order,
\* as plugin names (the base name without ".so")
Listings ==
    { <<>>, << <<"m">> >>, << <<"m", ".", "A">> >>,
      << <<"m", ".", "A">>, <<"m">> >> }

\* a scan that gives up at the first plugin that does not load
FilesAfter_Abort(files, err) == IF err # "" THEN <<>> ELSE files

\* LoadAllPlugins: the files the loop goes on with after LoadPlugin
\* returned err (the error is logged)
FilesAfter(files, err) == files

\* a caller starts LoadAllPlugins(): Glob, then the loop
CallLoadAllPlugins(t) ==
    /\ PluginIdle(t)
    /\ \E files \in Listings :
        ploc' = [ploc EXCEPT ![t] =
                    [NoCall EXCEPT !.op = "load_all", !.caller = "load_all",
                                   !.files = files, !.listing = files,
                                   !.before = DOMAIN plugins]]
    /\ ppc' = [ppc EXCEPT ![t] = "loadall_loop"]
    /\ UNCHANGED <<notPlugin, plugins, pluginFunctions, pmLock, plast>>

\* LoadAllPlugins: after a LoadPlugin returned, its error is logged; the
\* loop calls LoadPlugin for the next file or, after the last one, returns
LoadAllPluginsLoop(t) ==
    /\ ppc[t] = "loadall_loop"
    /\ LET c == ploc[t]
           tried == c.name # <<>>
           files == IF tried THEN FilesAfter(c.files, c.err) ELSE c.files
           seen == [c EXCEPT !.attempted = IF tried THEN @ \cup {c.name} ELSE @,
                             !.succeeded = IF tried /\ c.err = ""
                                           THEN @ \cup {c.name} ELSE @]
       IN IF files = <<>>
          THEN /\ ploc' = [ploc EXCEPT ![t] = [seen EXCEPT !.files = <<>>, !.err = ""]]
               /\ ppc' = [ppc EXCEPT ![t] = "done"]
          ELSE /\ ploc' = [ploc EXCEPT ![t] =
                            [seen EXCEPT !.name = Head(files),
                                         !.path = PluginPath(Head(files)),
                                         !.files = Tail(files), !.err = ""]]
               /\ ppc' = [ppc EXCEPT ![t] = "load_lock"]
    /\ UNCHANGED <<notPlugin, plugins, pluginFunctions, pmLock, plast>>

\* a caller starts ReloadAllPlugins()
CallReloadAllPlugins(t) ==
    /\ PluginIdle(t)
    /\ ploc' = [ploc EXCEPT ![t] = [NoCall EXCEPT !.op = "reload_all"]]
    /\ ppc' = [ppc EXCEPT ![t] = "reloadall_lock"]
    /\ UNCHANGED <<notPlugin, plugins, pluginFunctions, pmLock, plast>>

\* ReloadAllPlugins: pm.mu.Lock()
ReloadAllPluginsLock(t) ==
    /\ ppc[t] = "reloadall_lock"
    /\ LockFree
    /\ pmLock' = [pmLock EXCEPT !.writer = t]
    /\ ppc' = [ppc EXCEPT ![t] = "reloadall_body"]
    /\ UNCHANGED <<notPlugin, plugins, pluginFunctions, ploc, plast>>

\* ReloadAllPlugins: both tables are emptied; with no plugin to load it
\* returns nil (deferred Unlock), else it calls pm.LoadPlugin for the first
\* name of the map iteration, with the lock held
ReloadAllPluginsBody(t) ==
    /\ ppc[t] = "reloadall_body"
    /\ plugins' = <<>>
    /\ pluginFunctions' = <<>>
    /\ plast' = Update("reload_all", <<>>, <<>>, Unopenable, "",
                       plugins, pluginFunctions)
    /\ IF DOMAIN plugins = {}
       THEN /\ pmLock' = [pmLock EXCEPT !.writer = 0]
            /\ ppc' = [ppc EXCEPT ![t] = "done"]
            /\ UNCHANGED ploc
       ELSE /\ \E first \in DOMAIN plugins :
                ploc' = [ploc EXCEPT ![t] =
                    [@ EXCEPT !.name = first, !.path = PluginPath(first),
                              !.caller = "reload_all"]]
            /\ ppc' = [ppc EXCEPT ![t] = "load_lock"]
            /\ UNCHANGED pmLock
    /\ UNCHANGED notPlugin

\* a caller starts GetPluginFunction(functionName)
CallGetPluginFunction(t) ==
    /\ PluginIdle(t)
    /\ \E n \in PluginNames, m \in {<<"A">>, <<"H">>} :
        ploc' = [ploc EXCEPT ![t] =
                    [NoCall EXCEPT !.op = "get", !.name = FuncName(n, m)]]
    /\ ppc' = [ppc EXCEPT ![t] = "get_lock"]
    /\ UNCHANGED <<notPlugin, plugins, pluginFunctions, pmLock, plast>>

\* GetPluginFunction: pm.mu.RLock()
GetPluginFunctionLock(t) ==
    /\ ppc[t] = "get_lock"
    /\ pmLock.writer = 0
    /\ pmLock' = [pmLock EXCEPT !.readers = @ \cup {t}]
    /\ ppc' = [ppc EXCEPT ![t] = "get_body"]
    /\ UNCHANGED <<notPlugin, plugins, pluginFunctions, ploc, plast>>

\* GetPluginFunction: the lookup, then the deferred RUnlock
GetPluginFunctionBody(t) ==
    /\ ppc[t] = "get_body"
    /\ LET exists == ploc[t].name \in DOMAIN pluginFunctions
       IN /\ ploc' = [ploc EXCEPT
                ![t].err = IF exists THEN "" ELSE "not_found",
                ![t].fn = IF exists THEN pluginFunctions[ploc[t].name] ELSE <<>>]
          /\ ppc' = [ppc EXCEPT ![t] =
                IF exists /\ ploc[t].caller = "exec" THEN "exec_call" ELSE "done"]
    /\ pmLock' = [pmLock EXCEPT !.readers = @ \ {t}]
    /\ UNCHANGED <<notPlugin, plugins, pluginFunctions, plast>>

\* the type reflection reports of a stored function: extractTools stores
\* method.Interface(), the method with its receiver bound, which takes no
\* argument and returns what the method returns
FunctionType(fn) ==
    [Kind |-> "func", In |-> <<>>,
     Out |-> MethodType(<<fn[3][Len(fn[3])]>>).Out]

\* a caller starts ConversationService.ExecutePluginFunction(functionName)
CallExecutePluginFunction(t) ==
    /\ PluginIdle(t)
    /\ \E n \in PluginNames, m \in {<<"A">>, <<"H">>} :
        ploc' = [ploc EXCEPT ![t] =
                    [NoCall EXCEPT !.op = "exec", !.caller = "exec",
                                   !.name = FuncName(n, m)]]
    /\ ppc' = [ppc EXCEPT ![t] = "get_lock"]
    /\ UNCHANGED <<notPlugin, plugins, pluginFunctions, pmLock, plast>>

\* ExecutePluginFunction after GetPluginFunction returned a function: the
\* test of its signature and, when it passes, funcValue.Call(args), which
\* ends with the function's result or with its error
ExecutePluginFunctionCall(t) ==
    /\ ppc[t] = "exec_call"
    /\ LET funcType == FunctionType(ploc[t].fn)
       IN IF Len(funcType.In) # 2 \/ Len(funcType.Out) # 2
          THEN ploc' = [ploc EXCEPT ![t].err = "bad_signature"]
          ELSE \E e \in {"", "function_failed"} :
                    ploc' = [ploc EXCEPT ![t].err = e]
    /\ ppc' = [ppc EXCEPT ![t] = "done"]
    /\ UNCHANGED <<notPlugin, plugins, pluginFunctions, pmLock, plast>>

PluginStep(t) ==
    \/ CallLoadPlugin(t)
    \/ LoadPluginLock(t)
    \/ LoadPluginBody(t)
    \/ CallUnloadPlugin(t)
    \/ UnloadPluginLock(t)
    \/ UnloadPluginBody(t)
    \/ CallReloadPlugin(t)
    \/ ReloadPluginLock(t)
    \/ ReloadPluginBody(t)
    \/ CallReloadAllPlugins(t)
    \/ ReloadAllPluginsLock(t)
    \/ ReloadAllPluginsBody(t)
    \/ CallLoadAllPlugins(t)
    \/ LoadAllPluginsLoop(t)
    \/ CallGetPluginFunction(t)
    \/ GetPluginFunctionLock(t)
    \/ GetPluginFunctionBody(t)

\* one goroutine calling the plugin manager
NextPlugin == \E t \in {1} : PluginStep(t)

\* one goroutine executes plugin functions while another loads and unloads
\* plugins
ExecuteStep(t) ==
    \/ CallExecutePluginFunction(t)
    \/ GetPluginFunctionLock(t)
    \/ GetPluginFunctionBody(t)
    \/ ExecutePluginFunctionCall(t)
LoaderStep(t) ==
    \/ CallLoadPlugin(t)
    \/ LoadPluginLock(t)
    \/ LoadPluginBody(t)
    \/ CallUnloadPlugin(t)
    \/ UnloadPluginLock(t)
    \/ UnloadPluginBody(t)
NextPluginExec == ExecuteStep(1) \/ LoaderStep(2)

\* ------------------------------------------------------------------------
\* Model manager (pkg/model)
\* ------------------------------------------------------------------------
\* no model: the nil currentModel
NoModel == <<>>

\* NewModelManager before its call of initModel: the configuration of the
\* process, no model yet; built once the constructor has returned
NewModelManager ==
    [Provider |-> "openai", ModelName |-> "gpt-3.5-turbo", APIKey |-> "key1",
     APIBase |-> "base1", Model |-> NoModel, built |-> FALSE]

\* the arguments callers hand to UpdateModel; "" leaves a field as it is
Providers == {"", "openai", "mock", "other"}
ModelNames == {"", "gpt-4"}
APIKeys == {"", "key2"}
APIBases == {"", "base2"}

\* initModel between Lock and Unlock: the manager afterwards and the error;
\* openai.NewChatModel builds a model or fails, the mock model always fails
\* and any other provider is replaced by openai
InitModelResult(m) ==
    LET known == m.Provider \in {"openai", "mock"}
        m1 == [m EXCEPT !.Provider = IF known THEN @ ELSE "openai"]
        failed == [mm |-> m1, err |-> "create_failed"]
    IN IF m1.Provider = "mock" THEN {failed}
       ELSE { [mm |-> [m1 EXCEPT !.Model = <<m1.ModelName, m1.APIKey, m1.APIBase>>],
               err |-> ""],
              failed }

\* UpdateModel: the non-empty arguments replace the configuration
UpdateConfig(m, provider, modelName, apiKey, apiBase) ==
    [m EXCEPT !.Provider = IF provider # "" THEN provider ELSE @,
              !.ModelName = IF modelName # "" THEN modelName ELSE @,
              !.APIKey = IF apiKey # "" THEN apiKey ELSE @,
              !.APIBase = IF apiBase # "" THEN apiBase ELSE @]

\* UpdateModel: back to the configuration saved at entry
Rollback(m, old) ==
    [m EXCEPT !.Provider = old.Provider, !.ModelName = old.ModelName,
              !.APIKey = old.APIKey, !.APIBase = old.APIBase]

NoModelCall ==
    [op |-> "none", caller |-> "api", provider |-> "", modelName |-> "",
     apiKey |-> "", apiBase |-> "", old |-> NewModelManager, err |-> "",
     ret |-> NoModel]

ModelIdle(t) == mpc[t] \in {"idle", "done"}
ModelLockFree == mmLock.writer = 0 /\ mmLock.readers = {}

\* NewModelManager: the constructor calls initModel
CallNewModelManager(t) ==
    /\ ~mm.built
    /\ \A o \in Threads : mpc[o] = "idle"
    /\ mloc' = [mloc EXCEPT ![t] = [NoModelCall EXCEPT !.op = "new", !.caller = "new"]]
    /\ mpc' = [mpc EXCEPT ![t] = "init_lock"]
    /\ UNCHANGED <<notModel, mm, mmLock, mcalls>>

\* initModel: mm.mu.Lock()
InitModelLock(t) ==
    /\ mpc[t] = "init_lock"
    /\ ModelLockFree
    /\ mmLock' = [mmLock EXCEPT !.writer = t]
    /\ mpc' = [mpc EXCEPT ![t] = "init_body"]
    /\ UNCHANGED <<notModel, mm, mloc, mcalls>>

\* initModel: the body, then the deferred Unlock; the constructor logs the
\* error and returns the manager; UpdateModel rolls the configuration back
\* on an error and returns as well (its own deferred Unlock)
InitModelBody(t) ==
    /\ mpc[t] = "init_body"
    /\ \E r \in InitModelResult(mm) :
        IF mloc[t].caller = "new"
        THEN /\ mm' = [r.mm EXCEPT !.built = TRUE]
             /\ mloc' = [mloc EXCEPT ![t].err = r.err]
        ELSE /\ mm' = IF r.err # "" THEN Rollback(r.mm, mloc[t].old) ELSE r.mm
             /\ mloc' = [mloc EXCEPT ![t].err =
                            IF r.err # "" THEN "update_failed" ELSE ""]
    /\ mmLock' = [mmLock EXCEPT !.writer = 0]
    /\ mpc' = [mpc EXCEPT ![t] = "done"]
    /\ UNCHANGED <<notModel, mcalls>>

\* a caller starts UpdateModel(provider, modelName, apiKey, apiBase)
CallUpdateModel(t) ==
    /\ mm.built
    /\ ModelIdle(t)
    /\ mcalls < MaxModelManagerCalls
    /\ mcalls' = mcalls + 1
    /\ \E p \in Providers, n \in ModelNames, k \in APIKeys, b \in APIBases :
        mloc' = [mloc EXCEPT ![t] =
                    [NoModelCall EXCEPT !.op = "update", !.provider = p,
                                        !.modelName = n, !.apiKey = k,
                                        !.apiBase = b]]
    /\ mpc' = [mpc EXCEPT ![t] = "update_lock"]
    /\ UNCHANGED <<notModel, mm, mmLock>>

\* UpdateModel: mm.mu.Lock()
UpdateModelLock(t) ==
    /\ mpc[t] = "update_lock"
    /\ ModelLockFree
    /\ mmLock' = [mmLock EXCEPT !.writer = t]
    /\ mpc' = [mpc EXCEPT ![t] = "update_body"]
    /\ UNCHANGED <<notModel, mm, mloc, mcalls>>

\* UpdateModel: the old configuration is saved, the new one written, and
\* initModel is called with the lock held
UpdateModelBody(t) ==
    /\ mpc[t] = "update_body"
    /\ mm' = UpdateConfig(mm, mloc[t].provider, mloc[t].modelName,
                          mloc[t].apiKey, mloc[t].apiBase)
    /\ mloc' = [mloc EXCEPT ![t] = [@ EXCEPT !.old = mm, !.caller = "update"]]
    /\ mpc' = [mpc EXCEPT ![t] = "init_lock"]
    /\ UNCHANGED <<notModel, mmLock, mcalls>>

\* a caller starts GetCurrentModel() or GetCurrentModelInfo()
CallGetCurrentModel(t) ==
    /\ mm.built
    /\ ModelIdle(t)
    /\ mcalls < MaxModelManagerCalls
    /\ mcalls' = mcalls + 1
    /\ \E op \in {"get_model", "get_info"} :
        mloc' = [mloc EXCEPT ![t] = [NoModelCall EXCEPT !.op = op]]
    /\ mpc' = [mpc EXCEPT ![t] = "get_lock"]
    /\ UNCHANGED <<notModel, mm, mmLock>>

\* GetCurrentModel / GetCurrentModelInfo: mm.mu.RLock()
GetCurrentModelLock(t) ==
    /\ mpc[t] = "get_lock"
    /\ mmLock.writer = 0
    /\ mmLock' = [mmLock EXCEPT !.readers = @ \cup {t}]
    /\ mpc' = [mpc EXCEPT ![t] = "get_body"]
    /\ UNCHANGED <<notModel, mm, mloc, mcalls>>

\* GetCurrentModel / GetCurrentModelInfo: the read, then the deferred RUnlock
GetCurrentModelBody(t) ==
    /\ mpc[t] = "get_body"
    /\ mloc' = [mloc EXCEPT ![t].ret =
            IF mloc[t].op = "get_model" THEN mm.Model
            ELSE <<mm.Provider, mm.ModelName, mm.APIBase>>]
    /\ mmLock' = [mmLock EXCEPT !.readers = @ \ {t}]
    /\ mpc' = [mpc EXCEPT ![t] = "done"]
    /\ UNCHANGED <<notModel, mm, mcalls>>

ModelStep(t) ==
    \/ CallNewModelManager(t)
    \/ InitModelLock(t)
    \/ InitModelBody(t)
    \/ CallUpdateModel(t)
    \/ UpdateModelLock(t)
    \/ UpdateModelBody(t)
    \/ CallGetCurrentModel(t)
    \/ GetCurrentModelLock(t)
    \/ GetCurrentModelBody(t)

\* two goroutines calling the model manager
NextModel == \E t \in Threads : ModelStep(t)

\* ------------------------------------------------------------------------
\* Agentic loop (pkg/graph/workflow.go)
\* ------------------------------------------------------------------------
\* State{Messages: []Message{}, IsComplete: false}
NewState ==
    [Messages |-> <<>>, ToolCalls |-> <<>>, ToolResults |-> <<>>,
     NextAction |-> "", IsComplete |-> FALSE]

Message(role, content) == [Role |-> role, Content |-> content]

\* the names of the tools a model response asks for, in order
ToolCallShapes ==
    { <<>>, <<"invoice_tool">>, <<"no_such_tool">>,
      <<"invoice_tool", "no_such_tool">> }

\* the tool calls of the n-th response of turn k: ids are unique
ToolCallsOf(k, n, shape) ==
    [i \in 1..Len(shape) |-> [ID |-> <<k, n, i>>, Name |-> shape[i]]]

\* the responses the model may give to the n-th call of turn k
ModelResponses(k, n) ==
    { [Content |-> c, ToolCalls |-> ToolCallsOf(k, n, s)] :
        c \in {NoText, <<"reply", k, n>>}, s \in ToolCallShapes }

\* buildSystemPrompt: lists the registered tools
BuildSystemPrompt(reg) == <<"prompt", DOMAIN reg>>

\* the content of the tool-role message of one tool result
ToolMessageContent(result) ==
    IF result.Error # NoText THEN <<"tool_error", result.Error>>
    ELSE <<"json", result.Result>>

\* callModel: the message list handed to the model
BuildMessages(st, reg) ==
    <<Message("system", BuildSystemPrompt(reg))>>
    \o [i \in 1..Len(st.Messages) |->
            Message(st.Messages[i].Role, st.Messages[i].Content)]
    \o [i \in 1..Len(st.ToolResults) |->
            Message("tool", ToolMessageContent(st.ToolResults[i]))]

\* executeTool that reports no error for a tool missing from the registry
ExecuteTool_IgnoresMissing(reg, call) ==
    IF ~GetTool(reg, call.Name).exists
    THEN { [result |-> NoText, err |-> NoText] }
    ELSE { [result |-> <<"result", call.Name>>, err |-> NoText],
           [result |-> NoText, err |-> <<"tool_failed", call.Name>>] }

\* executeTool: the outcomes of one tool call against the registry; a
\* registered tool reports a result or an error of its own
ExecuteTool(reg, call) ==
    IF ~GetTool(reg, call.Name).exists
    THEN { [result |-> NoText, err |-> <<"tool_not_exist", call.Name>>] }
    ELSE { [result |-> <<"result", call.Name>>, err |-> NoText],
           [result |-> NoText, err |-> <<"tool_failed", call.Name>>] }

\* a ToolResult that carries the name of the tool in place of the call id
ToolResultOf_NameForID(call, out) ==
    IF out.err # NoText
    THEN [ToolCallID |-> <<call.Name>>, Result |-> NoText, Error |-> out.err]
    ELSE [ToolCallID |-> <<call.Name>>, Result |-> out.result, Error |-> NoText]

\* the ToolResult appended for one executed call
ToolResultOf(call, out) ==
    IF out.err # NoText
    THEN [ToolCallID |-> call.ID, Result |-> NoText, Error |-> out.err]
    ELSE [ToolCallID |-> call.ID, Result |-> out.result, Error |-> NoText]

\* a reply taken from the first assistant message instead of the last
FinalReply_First(st) ==
    IF \E i \in 1..Len(st.Messages) : st.Messages[i].Role = "assistant"
    THEN [ret |-> st.Messages[
                CHOOSE i \in 1..Len(st.Messages) :
                    /\ st.Messages[i].Role = "assistant"
                    /\ \A j \in 1..(i - 1) : st.Messages[j].Role # "assistant"
            ].Content,
          err |-> ""]
    ELSE [ret |-> NoText, err |-> "no_valid_reply"]

\* the value ProcessMessage returns once the loop has ended
FinalReply(st) ==
    IF Len(st.Messages) > 0 /\ st.Messages[Len(st.Messages)].Role = "assistant"
    THEN [ret |-> st.Messages[Len(st.Messages)].Content, err |-> ""]
    ELSE [ret |-> NoText, err |-> "no_valid_reply"]

\* no response received yet
NoResponse == [Content |-> NoText, ToolCalls |-> <<>>]

NoLocals ==
    [turn |-> 0, user |-> NoText, resp |-> NoResponse, i |-> 0, ret |-> NoText,
     err |-> "",
     viaService |-> FALSE,
     nCalls |-> 0, allTool |-> TRUE, sent |-> <<>>, executed |-> <<>>,
     finalSeen |-> 0, afterFinal |-> 0, lastResp |-> NoResponse,
     \* ctx of the turn is cancelled; as history, the tool invocations
     \* started after that
     cancelled |-> FALSE, lateTools |-> 0]

\* WorkflowService.ProcessMessage / ProcessMultiTurnMessage: begin a turn
\* that first resets the shared workflow
ServiceProcessMessage(t) ==
    /\ wpc[t] \in {"idle", "done"}
    /\ wturns < MaxTurns
    /\ wturns' = wturns + 1
    /\ wloc' = [wloc EXCEPT ![t] =
            [NoLocals EXCEPT !.turn = wturns + 1,
                             !.user = <<"user", wturns + 1>>,
                             !.viaService = TRUE]]
    /\ wpc' = [wpc EXCEPT ![t] = "reset"]
    /\ UNCHANGED <<notWorkflow, tools, wstate, wcalls>>

\* Workflow.Reset
Reset(t) ==
    /\ wpc[t] = "reset"
    /\ wstate' = NewState
    /\ wpc' = [wpc EXCEPT ![t] = "start"]
    /\ UNCHANGED <<notWorkflow, tools, wloc, wturns, wcalls>>

\* a caller that uses Workflow.ProcessMessage without resetting it
WorkflowProcessMessage(t) ==
    /\ wpc[t] \in {"idle", "done"}
    /\ wturns < MaxTurns
    /\ wturns' = wturns + 1
    /\ wloc' = [wloc EXCEPT ![t] =
            [NoLocals EXCEPT !.turn = wturns + 1,
                             !.user = <<"user", wturns + 1>>]]
    /\ wpc' = [wpc EXCEPT ![t] = "start"]
    /\ UNCHANGED <<notWorkflow, tools, wstate, wcalls>>

\* ProcessMessage: append the user message
AppendUser(t) ==
    /\ wpc[t] = "start"
    /\ wstate' = [wstate EXCEPT
            !.Messages = Append(@, Message("user", wloc[t].user))]
    /\ wpc' = [wpc EXCEPT ![t] = "loop"]
    /\ UNCHANGED <<notWorkflow, tools, wloc, wturns, wcalls>>

\* ProcessMessage: for !w.state.IsComplete
LoopTest(t) ==
    /\ wpc[t] = "loop"
    /\ wpc' = [wpc EXCEPT ![t] = IF wstate.IsComplete THEN "ret" ELSE "model"]
    /\ UNCHANGED <<notWorkflow, tools, wstate, wloc, wturns, wcalls>>

\* callModel with a response from the model
CallModel(t) ==
    /\ wpc[t] = "model"
    \* llmClient.Chat is handed ctx: with a cancelled ctx it returns an error
    /\ ~wloc[t].cancelled
    /\ wcalls < MaxModelCalls
    /\ wcalls' = wcalls + 1
    /\ \E r \in ModelResponses(wloc[t].turn, wloc[t].nCalls + 1) :
        wloc' = [wloc EXCEPT ![t] =
            [@ EXCEPT !.resp = r,
                      !.lastResp = r,
                      !.sent = BuildMessages(wstate, tools),
                      !.nCalls = @ + 1,
                      !.allTool = @ /\ Len(r.ToolCalls) > 0,
                      !.afterFinal = @ + (IF wloc[t].finalSeen > 0 THEN 1 ELSE 0),
                      !.finalSeen = @ + (IF Len(r.ToolCalls) = 0 THEN 1 ELSE 0)]]
    /\ wpc' = [wpc EXCEPT ![t] = "append"]
    /\ UNCHANGED <<notWorkflow, tools, wstate, wturns>>

\* callModel with an error from the model client: the turn is aborted
CallModelFails(t) ==
    /\ wpc[t] = "model"
    /\ wcalls < MaxModelCalls
    /\ wcalls' = wcalls + 1
    /\ wloc' = [wloc EXCEPT ![t] =
            [@ EXCEPT !.sent = BuildMessages(wstate, tools),
                      !.nCalls = @ + 1,
                      !.afterFinal = @ + (IF wloc[t].finalSeen > 0 THEN 1 ELSE 0),
                      !.ret = NoText, !.err = "model_failed"]]
    /\ wpc' = [wpc EXCEPT ![t] = "done"]
    /\ UNCHANGED <<notWorkflow, tools, wstate, wturns>>

\* ProcessMessage: append the assistant's text
AppendAssistant(t) ==
    /\ wpc[t] = "append"
    /\ wstate' = [wstate EXCEPT
            !.Messages = Append(@, Message("assistant", wloc[t].resp.Content))]
    /\ wpc' = [wpc EXCEPT ![t] = "branch"]
    /\ UNCHANGED <<notWorkflow, tools, wloc, wturns, wcalls>>

\* ProcessMessage: if len(response.ToolCalls) > 0 save them, else complete
Branch(t) ==
    /\ wpc[t] = "branch"
    /\ IF Len(wloc[t].resp.ToolCalls) > 0
       THEN /\ wstate' = [wstate EXCEPT
                    !.ToolCalls = @ \o wloc[t].resp.ToolCalls]
            /\ wloc' = [wloc EXCEPT ![t].i = 1]
            /\ wpc' = [wpc EXCEPT ![t] = "tools"]
       ELSE /\ wstate' = [wstate EXCEPT !.IsComplete = TRUE]
            /\ wloc' = wloc
            /\ wpc' = [wpc EXCEPT ![t] = "loop"]
    /\ UNCHANGED <<notWorkflow, tools, wturns, wcalls>>

\* ProcessMessage: one pass of the loop over response.ToolCalls
ExecuteToolCall(t) ==
    /\ wpc[t] = "tools"
    /\ LET call == wloc[t].resp.ToolCalls[wloc[t].i]
           last == wloc[t].i = Len(wloc[t].resp.ToolCalls)
       IN \E out \in ExecuteTool(tools, call) :
            /\ wstate' = [wstate EXCEPT
                    !.ToolResults = Append(@, ToolResultOf(call, out))]
            /\ wloc' = [wloc EXCEPT ![t] =
                    [@ EXCEPT !.i = @ + 1,
                              !.afterFinal = @ + (IF wloc[t].finalSeen > 0 THEN 1 ELSE 0),
                              !.lateTools = @ + (IF wloc[t].cancelled THEN 1 ELSE 0),
                              !.executed = Append(@,
                                    [ID |-> call.ID, Name |-> call.Name,
                                     known |-> GetTool(tools, call.Name).exists,
                                     iter |-> wloc[t].nCalls])]]
            /\ wpc' = [wpc EXCEPT ![t] = IF last THEN "loop" ELSE "tools"]
    /\ UNCHANGED <<notWorkflow, tools, wturns, wcalls>>

\* ProcessMessage: return the last assistant message, or an error
Return(t) ==
    /\ wpc[t] = "ret"
    /\ wloc' = [wloc EXCEPT ![t] =
            [@ EXCEPT !.ret = FinalReply(wstate).ret,
                      !.err = FinalReply(wstate).err]]
    /\ wpc' = [wpc EXCEPT ![t] = "done"]
    /\ UNCHANGED <<notWorkflow, tools, wstate, wturns, wcalls>>

\* the caller cancels ctx while the turn runs
Cancel(t) ==
    /\ wpc[t] \notin {"idle", "done"}
    /\ ~wloc[t].cancelled
    /\ wloc' = [wloc EXCEPT ![t].cancelled = TRUE]
    /\ UNCHANGED <<notWorkflow, tools, wstate, wpc, wturns, wcalls>>

WorkflowStep(t) ==
    \/ ServiceProcessMessage(t)
    \/ Reset(t)
    \/ WorkflowProcessMessage(t)
    \/ AppendUser(t)
    \/ LoopTest(t)
    \/ CallModel(t)
    \/ CallModelFails(t)
    \/ AppendAssistant(t)
    \/ Branch(t)
    \/ ExecuteToolCall(t)
    \/ Return(t)

\* ------------------------------------------------------------------------
\* Texts (strings, regexp)
\* ------------------------------------------------------------------------
\* a text is the sequence of its characters; a Chinese character is written
\* as its pinyin syllable, so it is neither a letter nor a digit
LowerLetters ==
    <<"a", "b", "c", "d", "e", "f", "g", "h", "i", "j", "k", "l", "m",
      "n", "o", "p", "q", "r", "s", "t", "u", "v", "w", "x", "y", "z">>
UpperLetters ==
    <<"A", "B", "C", "D", "E", "F", "G", "H", "I", "J", "K", "L", "M",
      "N", "O", "P", "Q", "R", "S", "T", "U", "V", "W", "X", "Y", "Z">>
Digits == {"0", "1", "2", "3", "4", "5", "6", "7", "8", "9"}
IsLower(c) == \E i \in DOMAIN LowerLetters : c = LowerLetters[i]
IsUpper(c) == \E i \in DOMAIN UpperLetters : c = UpperLetters[i]
IsLetter(c) == IsLower(c) \/ IsUpper(c)
IsDigit(c) == c \in Digits

\* a ToUpper that leaves every character as it is
ToUpper_Identity(s) == s

\* strings.ToUpper, strings.ToLower, strings.Contains
ToUpper(s) ==
    [i \in 1..Len(s) |->
        IF IsLower(s[i])
        THEN UpperLetters[CHOOSE k \in DOMAIN LowerLetters : s[i] = LowerLetters[k]]
        ELSE s[i]]
ToLower(s) ==
    [i \in 1..Len(s) |->
        IF IsUpper(s[i])
        THEN LowerLetters[CHOOSE k \in DOMAIN UpperLetters : s[i] = UpperLetters[k]]
        ELSE s[i]]
Contains(s, sub) ==
    \E i \in 0..(Len(s) - Len(sub)) : SubSeq(s, i + 1, i + Len(sub)) = sub

\* the user inputs explored
RefundText == <<"wo", "yao", "tui", "kuan">>
OrderText == <<"cha", "ding", "dan">>
ReasonText == <<"zhi", "liang", "wen", "ti">>
DeliveredID == <<"O", "R", "D", "7", "8", "9", "0", "1", "2">>
LowerCaseID == <<"ding", "dan", "o", "r", "d", "1", "2", "3", "4", "5", "6">>
UnknownID == <<"O", "R", "D", "0", "0", "0", "0", "0", "0">>
Inputs == {RefundText, OrderText, ReasonText, DeliveredID, LowerCaseID, UnknownID}

\* detectIntent: order keywords are tried before refund keywords
OrderKeywords ==
    { <<"cha", "ding", "dan">>, <<"cha", "xun", "ding", "dan">>,
      <<"ding", "dan", "zhuang", "tai">>, <<"wo", "de", "ding", "dan">>,
      <<"cha", "yi", "xia", "ding", "dan">>, <<"ding", "dan", "xin", "xi">> }
RefundKeywords ==
    { <<"tui", "kuan">>, <<"tui", "huo">>, <<"shen", "qing", "tui", "kuan">>,
      <<"wo", "yao", "tui", "kuan">>, <<"zen", "me", "tui", "kuan">>,
      <<"tui", "kuan", "shen", "qing">> }
detectIntent(message) ==
    LET lowerMessage == ToLower(message)
    IN IF \E k \in OrderKeywords : Contains(lowerMessage, k) THEN "order_query"
       ELSE IF \E k \in RefundKeywords : Contains(lowerMessage, k)
            THEN "refund_request"
       ELSE "general"

\* regexp [A-Za-z]*\d{6,}: a match starting at i takes the run of letters at
\* i and then the run of digits, which must have six characters or more
LetterRunEnd(s, i) ==
    CHOOSE j \in i..(Len(s) + 1) :
        /\ \A k \in i..(j - 1) : IsLetter(s[k])
        /\ j = Len(s) + 1 \/ ~IsLetter(s[j])
DigitRunEnd(s, i) ==
    CHOOSE j \in i..(Len(s) + 1) :
        /\ \A k \in i..(j - 1) : IsDigit(s[k])
        /\ j = Len(s) + 1 \/ ~IsDigit(s[j])
\* the position after the match that starts at i, 0 when there is none
MatchAt(s, i) ==
    LET j == LetterRunEnd(s, i)
        k == DigitRunEnd(s, j)
    IN IF k - j >= 6 THEN k ELSE 0
\* re.FindAllString(message, -1): leftmost matches, not overlapping
RECURSIVE FindAllString(_, _)
FindAllString(s, i) ==
    IF i > Len(s) THEN <<>>
    ELSE IF MatchAt(s, i) > 0
         THEN <<SubSeq(s, i, MatchAt(s, i) - 1)>> \o FindAllString(s, MatchAt(s, i))
         ELSE FindAllString(s, i + 1)
ContainsORD(match) == Contains(ToUpper(match), <<"O", "R", "D">>)
\* extractOrderID: the first match containing ORD, else the first match,
\* upper-cased; the empty text when nothing matches
extractOrderID(message) ==
    LET matches == FindAllString(message, 1)
        withORD == SelectSeq(matches, ContainsORD)
    IN IF withORD # <<>> THEN ToUpper(withORD[1])
       ELSE IF matches # <<>> THEN ToUpper(matches[1])
       ELSE <<>>

\* ------------------------------------------------------------------------
\* Order and refund tools (pkg/tools)
\* ------------------------------------------------------------------------
\* initMockData: the three orders and their status
ShippedID == <<"O", "R", "D", "1", "2", "3", "4", "5", "6">>
PendingID == <<"O", "R", "D", "3", "4", "5", "6", "7", "8">>
MockOrders == {ShippedID, DeliveredID, PendingID}
OrderStatus(orderID) ==
    CASE orderID = ShippedID -> "shipped"
      [] orderID = DeliveredID -> "delivered"
      [] orderID = PendingID -> "pending"

\* QueryOrder.Query
Query(orderID) ==
    IF orderID \in MockOrders
    THEN [ok |-> TRUE, status |-> OrderStatus(orderID), err |-> <<>>]
    ELSE [ok |-> FALSE, status |-> "", err |-> <<"order does not exist: ">> \o orderID]

\* CheckRefundEligibility: a delivered order is eligible while its seven-day
\* return window, counted from the delivery date, is open
CheckRefundEligibility(orderID, windowOpen) ==
    LET order == Query(orderID)
    IN IF ~order.ok
       THEN [eligible |-> FALSE, message |-> <<>>,
             err |-> <<"order lookup failed: ">> \o order.err]
       ELSE IF order.status = "delivered"
       THEN IF windowOpen
            THEN [eligible |-> TRUE, message |-> <<"within return window">>, err |-> <<>>]
            ELSE [eligible |-> FALSE, message |-> <<"return window passed">>, err |-> <<>>]
       ELSE [eligible |-> TRUE, message |-> <<"not delivered yet">>, err |-> <<>>]

\* SubmitRefund
SubmitRefund(orderID, reason, windowOpen) ==
    LET e == CheckRefundEligibility(orderID, windowOpen)
    IN IF e.err # <<>> THEN [ok |-> FALSE, err |-> e.err]
       ELSE IF ~e.eligible
       THEN [ok |-> FALSE, err |-> <<"not eligible for refund: ">> \o e.message]
       ELSE [ok |-> TRUE, err |-> <<>>]

\* the responses of the step machine
GreetingResponse == <<"hello, I can look up orders and handle refunds">>
AskOrderIDForQuery == <<"I can look up the order, please give the order id">>
AskOrderIDForRefund == <<"I can handle the refund, please give the order id">>
NoOrderIDResponse == <<"no valid order id found, please give the order id">>
AlreadySubmittedResponse == <<"the refund request was already submitted">>
AskReasonResponse(orderID) ==
    <<"refund for order ">> \o orderID \o <<", please give the reason">>
OrderQueryFailedResponse(err) == <<"order lookup failed: ">> \o err
OrderInfoResponse(orderID) ==
    <<"lookup succeeded: ">> \o orderID \o <<" ">> \o <<OrderStatus(orderID)>>
RefundFailedResponse_Empty(err) == <<>>
RefundFailedResponse(err) == <<"refund request failed: ">> \o err
RefundSubmittedResponse(orderID, reason) ==
    <<"refund request submitted: ">> \o orderID \o <<" ">> \o reason
ChatResponses == { <<"chat reply">>, <<>> }

\* ------------------------------------------------------------------------
\* Session store (pkg/conversation/state.go) and the keyword step machine
\* (MultiTurnConversation)
\* ------------------------------------------------------------------------
SessionIDs == {"s1", "s2"}

HistoryMessage(role, content) == [Role |-> role, Content |-> content]

\* a ConversationState whose lastActivity is the zero time
NewConversationState_ZeroActivity(sessionID, userID, now) ==
    [SessionID |-> sessionID, UserID |-> userID, CurrentStep |-> "greeting",
     Context |-> <<>>, History |-> <<>>, LastActivity |-> 0, CreatedAt |-> now]

\* CreateState: the ConversationState it builds
NewConversationState(sessionID, userID, now) ==
    [SessionID |-> sessionID, UserID |-> userID, CurrentStep |-> "greeting",
     Context |-> <<>>, History |-> <<>>, LastActivity |-> now, CreatedAt |-> now]

\* an AddMessage whose update function appends the message twice
AddMessage_Twice(state, role, content, now) ==
    [state EXCEPT !.History = Append(Append(@, HistoryMessage(role, content)),
                                     HistoryMessage(role, content)),
                  !.LastActivity = now]

\* the update functions handed to UpdateState, with its LastActivity write
AddMessage(state, role, content, now) ==
    [state EXCEPT !.History = Append(@, HistoryMessage(role, content)),
                  !.LastActivity = now]
\* a SetCurrentStep whose update function also empties the context
SetCurrentStep_Resets(state, step, now) ==
    [state EXCEPT !.CurrentStep = step, !.Context = <<>>, !.LastActivity = now]
SetCurrentStep(state, step, now) ==
    [state EXCEPT !.CurrentStep = step, !.LastActivity = now]
\* a SetContext that stores nothing
SetContext_Drops(state, key, value, now) ==
    [state EXCEPT !.LastActivity = now]
SetContext(state, key, value, now) ==
    [state EXCEPT !.Context = [k \in DOMAIN @ \cup {key} |->
                                    IF k = key THEN value ELSE @[k]],
                  !.LastActivity = now]

\* sm.states[sessionID]
Exists(sessionID) == sessionID \in DOMAIN states
\* UpdateState on an existing session: the object the table points to changes
UpdateState(sessionID, state) ==
    /\ heap' = [heap EXCEPT ![states[sessionID]] = state]
    /\ UNCHANGED states
Current(sessionID) == heap[states[sessionID]]

\* locals of MultiTurnConversation.ProcessMessage and of the handler it runs
NoSessionLocals ==
    [sid |-> "", msg |-> <<>>, state |-> 0, step |-> "", target |-> "",
     orderID |-> <<>>, reason |-> <<>>, hstate |-> 0, resp |-> <<>>,
     ret |-> <<>>, err |-> "",
     \* history of the turn: the session was created by it, the position of
     \* its user message, the outcome of its refund submission
     created |-> FALSE, userPos |-> 0, refund |-> "none",
     \* the turn goes through Manager.ProcessMessage and the step registry
     flow |-> FALSE,
     \* a direct call on the StateManager: its name and its expiration
     \* and, as history, the sessions its sweep removed
     op |-> "", role |-> "", expiration |-> 0, swept |-> {},
     \* history of the turn: its session was removed after its
     \* GetOrCreateState returned and before its last AddMessage
     lost |-> FALSE,
     \* history of the turn: it invoked the chat model
     chat |-> FALSE,
     \* the key and the value of a direct SetContext call
     key |-> "", value |-> <<>>,
     \* history of a flow turn: the steps ProcessInput may end in, depending
     \* on the order in which it meets the registered steps
     ends |-> {},
     \* history: the writes of session fields the call made through a
     \* pointer, outside UpdateState and CreateState and so with
     \* StateManager.mutex not held
     bare |-> 0]

SGoto(t, pc, loc) ==
    /\ spc' = [spc EXCEPT ![t] = pc]
    /\ sloc' = [sloc EXCEPT ![t] = loc]
\* return "", err
SFail(t, e) == SGoto(t, "done", [sloc[t] EXCEPT !.err = e, !.ret = <<>>])
\* the handler returned response, nil
SRespond(t, loc, response) ==
    SGoto(t, "add_assistant", [loc EXCEPT !.resp = response])

\* a caller enters MultiTurnConversation.ProcessMessage
MultiTurnProcessMessage(t) ==
    /\ spc[t] \in {"idle", "done"}
    /\ sturns < MaxSessionTurns
    /\ sturns' = sturns + 1
    /\ \E sid \in SessionIDs, msg \in Inputs :
        SGoto(t, "goc_get", [NoSessionLocals EXCEPT !.sid = sid, !.msg = msg])
    /\ UNCHANGED <<states, heap, clock, notSession>>

\* a customer who keeps writing in the one session "s1" enters
\* MultiTurnConversation.ProcessMessage
CustomerMessage(t) ==
    /\ spc[t] \in {"idle", "done"}
    /\ sturns < MaxCustomerTurns
    /\ sturns' = sturns + 1
    /\ \E msg \in Inputs :
        SGoto(t, "goc_get", [NoSessionLocals EXCEPT !.sid = "s1", !.msg = msg])
    /\ UNCHANGED <<states, heap, clock, notSession>>

\* Manager.GetOrCreateState: GetState and the test of exists
GetOrCreateState(t) ==
    /\ spc[t] = "goc_get"
    /\ IF Exists(sloc[t].sid)
       THEN SGoto(t, "add_user", [sloc[t] EXCEPT !.state = states[sloc[t].sid]])
       ELSE SGoto(t, "goc_create", sloc[t])
    /\ UNCHANGED <<states, heap, clock, sturns, notSession>>

\* StateManager.CreateState, called when GetState found nothing
CreateState(t) ==
    /\ spc[t] = "goc_create"
    /\ heap' = Append(heap, NewConversationState(sloc[t].sid, "default_user", clock))
    /\ states' = [k \in DOMAIN states \cup {sloc[t].sid} |->
                    IF k = sloc[t].sid THEN Len(heap) + 1 ELSE states[k]]
    /\ SGoto(t, "add_user",
             [sloc[t] EXCEPT !.state = Len(heap) + 1, !.created = TRUE])
    /\ UNCHANGED <<clock, sturns, notSession>>

\* AddMessage(sessionID, "user", userMessage, nil)
AddUserMessage(t) ==
    /\ spc[t] = "add_user"
    /\ IF Exists(sloc[t].sid)
       THEN /\ UpdateState(sloc[t].sid,
                    AddMessage(Current(sloc[t].sid), "user", sloc[t].msg, clock))
            /\ SGoto(t, IF sloc[t].flow THEN "process_input" ELSE "get_step",
                    [sloc[t] EXCEPT !.userPos = Len(Current(sloc[t].sid).History) + 1])
       ELSE /\ SFail(t, "add user message failed")
            /\ UNCHANGED <<states, heap>>
    /\ UNCHANGED <<clock, sturns, notSession>>

\* a GetCurrentStep whose caller keeps the empty step of a failed call
GetCurrentStep_NoDefault(t) ==
    /\ spc[t] = "get_step"
    /\ SGoto(t, "dispatch",
             [sloc[t] EXCEPT !.step = IF Exists(sloc[t].sid)
                                      THEN Current(sloc[t].sid).CurrentStep
                                      ELSE ""])
    /\ UNCHANGED <<states, heap, clock, sturns, notSession>>

\* Manager.GetCurrentStep, "greeting" when the session is not found
GetCurrentStep(t) ==
    /\ spc[t] = "get_step"
    /\ SGoto(t, "dispatch",
             [sloc[t] EXCEPT !.step = IF Exists(sloc[t].sid)
                                      THEN Current(sloc[t].sid).CurrentStep
                                      ELSE "greeting"])
    /\ UNCHANGED <<states, heap, clock, sturns, notSession>>

\* the switch on currentStep, with the part of the handler that runs before
\* its first call on the state manager
Dispatch(t) ==
    /\ spc[t] = "dispatch"
    /\ LET loc == sloc[t]
           intent == detectIntent(loc.msg)
           orderID == extractOrderID(loc.msg)
       IN CASE loc.step = "greeting" ->
                \* handleGreetingStep
                IF intent = "order_query"
                THEN SGoto(t, "start_set_step", [loc EXCEPT !.target = "order_query"])
                ELSE IF intent = "refund_request"
                THEN SGoto(t, "start_set_step", [loc EXCEPT !.target = "refund_request"])
                ELSE SRespond(t, loc, GreetingResponse)
            [] loc.step = "order_query" ->
                \* handleOrderQueryStep
                IF orderID = <<>>
                THEN SRespond(t, loc, NoOrderIDResponse)
                ELSE SGoto(t, "oq_set_context", [loc EXCEPT !.orderID = orderID])
            [] loc.step = "refund_request" ->
                SGoto(t, "rr_get_state", loc)
            [] OTHER ->
                IF intent = "order_query"
                THEN SGoto(t, "start_set_step", [loc EXCEPT !.target = "order_query"])
                ELSE IF intent = "refund_request"
                THEN SGoto(t, "start_set_step", [loc EXCEPT !.target = "refund_request"])
                ELSE \* handleGeneralChat: the chat model answers or fails
                     \/ \E r \in ChatResponses :
                            SRespond(t, [loc EXCEPT !.chat = TRUE], r)
                     \/ SGoto(t, "done", [loc EXCEPT !.chat = TRUE, !.ret = <<>>,
                                                     !.err = "chat model failed"])
    /\ UNCHANGED <<states, heap, clock, sturns, notSession>>

\* startOrderQuery / startRefundRequest: SetCurrentStep(sessionID, step)
StartSetCurrentStep(t) ==
    /\ spc[t] = "start_set_step"
    /\ IF Exists(sloc[t].sid)
       THEN /\ UpdateState(sloc[t].sid,
                    SetCurrentStep(Current(sloc[t].sid), sloc[t].target, clock))
            /\ SGoto(t, "start_get_state", sloc[t])
       ELSE /\ SFail(t, "set current step failed")
            /\ UNCHANGED <<states, heap>>
    /\ UNCHANGED <<clock, sturns, notSession>>

\* startOrderQuery / startRefundRequest: GetState and the look at the context
StartGetState(t) ==
    /\ spc[t] = "start_get_state"
    /\ IF ~Exists(sloc[t].sid)
       THEN SFail(t, "get state failed")
       ELSE LET loc == sloc[t]
                ctx == Current(loc.sid).Context
            IN IF "order_id" \notin DOMAIN ctx
               THEN SRespond(t, loc, IF loc.target = "order_query"
                                     THEN AskOrderIDForQuery
                                     ELSE AskOrderIDForRefund)
               ELSE IF loc.target = "order_query"
               THEN SGoto(t, "process_order", [loc EXCEPT !.orderID = ctx["order_id"]])
               ELSE IF "refund_reason" \in DOMAIN ctx
               THEN SGoto(t, "process_refund",
                          [loc EXCEPT !.orderID = ctx["order_id"],
                                      !.reason = ctx["refund_reason"]])
               ELSE SRespond(t, loc, AskReasonResponse(ctx["order_id"]))
    /\ UNCHANGED <<states, heap, clock, sturns, notSession>>

\* handleOrderQueryStep: SetContext(sessionID, "order_id", orderID)
OrderQuerySetContext(t) ==
    /\ spc[t] = "oq_set_context"
    /\ IF Exists(sloc[t].sid)
       THEN /\ UpdateState(sloc[t].sid,
                    SetContext(Current(sloc[t].sid), "order_id", sloc[t].orderID, clock))
            /\ SGoto(t, "process_order", sloc[t])
       ELSE /\ SFail(t, "save order id failed")
            /\ UNCHANGED <<states, heap>>
    /\ UNCHANGED <<clock, sturns, notSession>>

\* processOrderQuery
ProcessOrderQuery(t) ==
    /\ spc[t] = "process_order"
    /\ LET loc == sloc[t]
           order == Query(loc.orderID)
       IN IF ~order.ok
          THEN /\ SRespond(t, loc, OrderQueryFailedResponse(order.err))
               /\ UNCHANGED <<states, heap>>
          ELSE IF Exists(loc.sid)
          THEN /\ UpdateState(loc.sid, SetCurrentStep(Current(loc.sid), "greeting", clock))
               /\ SRespond(t, loc, OrderInfoResponse(loc.orderID))
          ELSE /\ SFail(t, "reset step failed")
               /\ UNCHANGED <<states, heap>>
    /\ UNCHANGED <<clock, sturns, notSession>>

\* handleRefundRequestStep: GetState and the look at the context
RefundGetState(t) ==
    /\ spc[t] = "rr_get_state"
    /\ IF ~Exists(sloc[t].sid)
       THEN SFail(t, "get state failed")
       ELSE LET loc == [sloc[t] EXCEPT !.hstate = states[sloc[t].sid]]
                ctx == heap[loc.hstate].Context
                orderID == extractOrderID(loc.msg)
            IN IF "order_id" \notin DOMAIN ctx
               THEN IF orderID = <<>>
                    THEN SRespond(t, loc, NoOrderIDResponse)
                    ELSE SGoto(t, "rr_set_order", [loc EXCEPT !.orderID = orderID])
               ELSE IF "refund_reason" \notin DOMAIN ctx
               THEN SGoto(t, "rr_set_reason", loc)
               ELSE SRespond(t, loc, AlreadySubmittedResponse)
    /\ UNCHANGED <<states, heap, clock, sturns, notSession>>

\* handleRefundRequestStep: SetContext(sessionID, "order_id", orderID)
RefundSetOrderID(t) ==
    /\ spc[t] = "rr_set_order"
    /\ IF Exists(sloc[t].sid)
       THEN /\ UpdateState(sloc[t].sid,
                    SetContext(Current(sloc[t].sid), "order_id", sloc[t].orderID, clock))
            /\ SRespond(t, sloc[t], AskReasonResponse(sloc[t].orderID))
       ELSE /\ SFail(t, "save order id failed")
            /\ UNCHANGED <<states, heap>>
    /\ UNCHANGED <<clock, sturns, notSession>>

\* handleRefundRequestStep: SetContext(sessionID, "refund_reason", message),
\* then the order id is read through the pointer GetState returned
RefundSetReason(t) ==
    /\ spc[t] = "rr_set_reason"
    /\ IF Exists(sloc[t].sid)
       THEN /\ UpdateState(sloc[t].sid,
                    SetContext(Current(sloc[t].sid), "refund_reason", sloc[t].msg, clock))
            /\ SGoto(t, "process_refund",
                     [sloc[t] EXCEPT !.orderID = heap'[sloc[t].hstate].Context["order_id"],
                                     !.reason = sloc[t].msg])
       ELSE /\ SFail(t, "save refund reason failed")
            /\ UNCHANGED <<states, heap>>
    /\ UNCHANGED <<clock, sturns, notSession>>

\* processRefundRequest
ProcessRefundRequest(t) ==
    /\ spc[t] = "process_refund"
    /\ \E windowOpen \in BOOLEAN :
        LET loc == sloc[t]
            refund == SubmitRefund(loc.orderID, loc.reason, windowOpen)
        IN IF ~refund.ok
           THEN /\ SRespond(t, [loc EXCEPT !.refund = "failed"],
                            RefundFailedResponse(refund.err))
                /\ UNCHANGED <<states, heap>>
           ELSE IF Exists(loc.sid)
           THEN /\ UpdateState(loc.sid, SetCurrentStep(Current(loc.sid), "greeting", clock))
                /\ SRespond(t, [loc EXCEPT !.refund = "ok"],
                            RefundSubmittedResponse(loc.orderID, loc.reason))
           ELSE /\ SFail(t, "reset step failed")
                /\ UNCHANGED <<states, heap>>
    /\ UNCHANGED <<clock, sturns, notSession>>

\* a last step that returns the response though AddMessage failed
AddAssistantMessage_IgnoresError(t) ==
    /\ spc[t] = "add_assistant"
    /\ IF Exists(sloc[t].sid)
       THEN UpdateState(sloc[t].sid,
                AddMessage(Current(sloc[t].sid), "assistant", sloc[t].resp, clock))
       ELSE UNCHANGED <<states, heap>>
    /\ SGoto(t, "done", [sloc[t] EXCEPT !.ret = sloc[t].resp])
    /\ UNCHANGED <<clock, sturns, notSession>>

\* AddMessage(sessionID, "assistant", response, nil) and the return
AddAssistantMessage(t) ==
    /\ spc[t] = "add_assistant"
    /\ IF Exists(sloc[t].sid)
       THEN /\ UpdateState(sloc[t].sid,
                    AddMessage(Current(sloc[t].sid), "assistant", sloc[t].resp, clock))
            /\ SGoto(t, "done", [sloc[t] EXCEPT !.ret = sloc[t].resp])
       ELSE /\ SFail(t, "add assistant message failed")
            /\ UNCHANGED <<states, heap>>
    /\ UNCHANGED <<clock, sturns, notSession>>

\* time passes
Tick ==
    /\ clock < MaxClock
    /\ clock' = clock + 1
    /\ UNCHANGED <<states, heap, spc, sloc, sturns, notSession>>

\* StateManager.RemoveState
RemoveState ==
    /\ \E sid \in DOMAIN states : states' = Without(states, {sid})
    /\ UNCHANGED <<heap, clock, spc, sloc, sturns, notSession>>

\* StateManager.RemoveState(sessionID) called by another goroutine while the
\* turn of t on that session is between its GetOrCreateState and its last
\* AddMessage
RemoveStateDuringTurn(t) ==
    /\ spc[t] \notin {"idle", "done", "goc_get", "goc_create"}
    /\ ~sloc[t].flow /\ sloc[t].op = ""
    /\ Exists(sloc[t].sid)
    /\ states' = Without(states, {sloc[t].sid})
    /\ sloc' = [sloc EXCEPT ![t].lost = TRUE]
    /\ UNCHANGED <<heap, clock, spc, sturns, notSession>>

\* a sweep that also removes a session idle for exactly the expiration
Expired_Inclusive(state, now, expiration) ==
    now - state.LastActivity >= expiration
\* ClearExpiredStates: now.Sub(state.LastActivity) > expiration
Expired(state, now, expiration) ==
    now - state.LastActivity > expiration

\* StateManager.ClearExpiredStates(expiration)
ClearExpiredStates ==
    /\ \E expiration \in 0..MaxClock :
        states' = Without(states,
                    { sid \in DOMAIN states :
                        Expired(Current(sid), clock, expiration) })
    /\ UNCHANGED <<heap, clock, spc, sloc, sturns, notSession>>

TurnStep(t) ==
    \/ MultiTurnProcessMessage(t)
    \/ GetOrCreateState(t)
    \/ CreateState(t)
    \/ AddUserMessage(t)
    \/ GetCurrentStep(t)
    \/ Dispatch(t)
    \/ StartSetCurrentStep(t)
    \/ StartGetState(t)
    \/ OrderQuerySetContext(t)
    \/ ProcessOrderQuery(t)
    \/ RefundGetState(t)
    \/ RefundSetOrderID(t)
    \/ RefundSetReason(t)
    \/ ProcessRefundRequest(t)
    \/ AddAssistantMessage(t)

\* ------------------------------------------------------------------------
\* The step registry flow (ConversationFlow, Manager.ProcessMessage)
\* ------------------------------------------------------------------------
\* registerDefaultSteps: the names of the registered steps
StepNames == {"greeting", "order_query", "refund_request"}

\* regexp ORD\w+, leftmost match: ORD followed by a run of word characters
IsWord(c) == IsLetter(c) \/ IsDigit(c) \/ c = "_"
WordRunEnd(s, i) ==
    CHOOSE j \in i..(Len(s) + 1) :
        /\ \A k \in i..(j - 1) : IsWord(s[k])
        /\ j = Len(s) + 1 \/ ~IsWord(s[j])
OrdMatches(s) ==
    { i \in 1..Len(s) :
        /\ i + 3 <= Len(s)
        /\ SubSeq(s, i, i + 2) = <<"O", "R", "D">>
        /\ IsWord(s[i + 3]) }
\* the package function extractOrderID(text) of the step registry flow
flowExtractOrderID(text) ==
    IF OrdMatches(text) = {} THEN <<>>
    ELSE LET i == CHOOSE m \in OrdMatches(text) : \A o \in OrdMatches(text) : m <= o
         IN SubSeq(text, i, WordRunEnd(text, i) - 1)

\* extractRefundReason: the first of the known reasons the text contains
RefundReasons ==
    << <<"zhi", "liang", "wen", "ti">>, <<"bu", "xiang", "yao", "le">>,
       <<"fa", "cuo", "huo">>, <<"sun", "huai">>,
       <<"bu", "fu", "he", "miao", "shu">> >>
extractRefundReason(text) ==
    LET found == SelectSeq(RefundReasons, LAMBDA r : Contains(text, r))
    IN IF found = <<>> THEN <<>> ELSE found[1]

\* the keywords of the steps
MentionsOrder(input) ==
    Contains(input, <<"cha", "ding", "dan">>) \/ Contains(input, <<"ding", "dan">>)
MentionsRefund(input) ==
    Contains(input, <<"tui", "kuan">>) \/ Contains(input, <<"tui", "dan">>)

\* the responses of the steps
FlowAskOrderID == <<"please give your order id so that I can look it up">>
FlowAskOrderIDAndReason == <<"please give your order id and the refund reason">>
FlowGreeting == <<"hello, I can look up orders and handle refunds for you">>
FlowNoOrderID == <<"no valid order id found, it usually starts with ORD">>
FlowAskReason == <<"please tell me the refund reason">>
queryOrderStatus(orderID) == <<"order status: shipped">>
processRefundRequest(orderID, reason) == <<"refund request submitted, reason: ">> \o reason
FlowOrderResult(orderID) ==
    <<"order lookup result: ">> \o orderID \o queryOrderStatus(orderID)
FlowRefundResult(orderID, reason) ==
    <<"refund request result: ">> \o orderID \o processRefundRequest(orderID, reason)

\* state.Context[key] = value and delete(state.Context, key)
WithKey(context, key, value) ==
    [k \in DOMAIN context \cup {key} |-> IF k = key THEN value ELSE context[k]]

\* GreetingStep.Execute
GreetingStepExecute(state, input) ==
    IF MentionsOrder(input)
    THEN [state |-> [state EXCEPT !.CurrentStep = "order_query"],
          response |-> FlowAskOrderID]
    ELSE IF MentionsRefund(input)
    THEN [state |-> [state EXCEPT !.CurrentStep = "refund_request"],
          response |-> FlowAskOrderIDAndReason]
    ELSE [state |-> state, response |-> FlowGreeting]

\* an OrderQueryStep that returns to a step nobody registered
OrderQueryStepExecute_Typo(state, input) ==
    LET orderID == flowExtractOrderID(input)
    IN IF orderID = <<>>
       THEN [state |-> state, response |-> FlowNoOrderID]
       ELSE [state |-> [state EXCEPT !.Context = WithKey(@, "order_id", orderID),
                                     !.CurrentStep = "greetings"],
             response |-> FlowOrderResult(orderID)]

\* OrderQueryStep.Execute
OrderQueryStepExecute(state, input) ==
    LET orderID == flowExtractOrderID(input)
    IN IF orderID = <<>>
       THEN [state |-> state, response |-> FlowNoOrderID]
       ELSE [state |-> [state EXCEPT !.Context = WithKey(@, "order_id", orderID),
                                     !.CurrentStep = "greeting"],
             response |-> FlowOrderResult(orderID)]

\* RefundRequestStep.Execute
RefundRequestStepExecute(state, input) ==
    LET orderID == flowExtractOrderID(input)
        refundReason == extractRefundReason(input)
    IN IF orderID = <<>>
       THEN [state |-> state, response |-> FlowNoOrderID]
       ELSE IF refundReason = <<>>
       THEN [state |-> [state EXCEPT !.Context =
                            WithKey(WithKey(@, "order_id", orderID),
                                    "awaiting_refund_reason", <<"true">>)],
             response |-> FlowAskReason]
       ELSE [state |-> [state EXCEPT !.Context =
                            Without(WithKey(WithKey(@, "order_id", orderID),
                                            "refund_reason", refundReason),
                                    {"awaiting_refund_reason"}),
                        !.CurrentStep = "greeting"],
             response |-> FlowRefundResult(orderID, refundReason)]

\* Execute of the registered step of that name
StepExecute(name, state, input) ==
    CASE name = "greeting" -> GreetingStepExecute(state, input)
      [] name = "order_query" -> OrderQueryStepExecute(state, input)
      [] name = "refund_request" -> RefundRequestStepExecute(state, input)

\* CanTransition of the registered step of that name
CanTransition(name, state, input) ==
    CASE name = "greeting" -> FALSE
      [] name = "order_query" ->
            state.CurrentStep # "order_query" /\ MentionsOrder(input)
      [] name = "refund_request" ->
            state.CurrentStep # "refund_request" /\ MentionsRefund(input)

\* ConversationFlow.ProcessInput: the outcomes, one for each step the
\* iteration over the registry map may meet first
ProcessInput(state, input) ==
    IF state.CurrentStep \notin StepNames
    THEN { [state |-> state, response |-> <<>>, err |-> "step not found"] }
    ELSE LET exec == StepExecute(state.CurrentStep, state, input)
             next == { n \in StepNames :
                         /\ n # exec.state.CurrentStep
                         /\ CanTransition(n, exec.state, input) }
         IN IF next = {}
            THEN { [state |-> exec.state, response |-> exec.response, err |-> ""] }
            ELSE { [state |-> [exec.state EXCEPT !.CurrentStep = n],
                    response |-> exec.response, err |-> ""] : n \in next }

\* inputs of the flow: those of the keyword step machine, an order id
\* after an order keyword, and an order id after both keywords
OrderKeywordAndID == <<"ding", "dan">> \o DeliveredID
BothKeywordsAndID == <<"ding", "dan", "tui", "kuan">> \o DeliveredID
FlowInputs == Inputs \cup {OrderKeywordAndID, BothKeywordsAndID}

\* a caller enters Manager.ProcessMessage
ManagerProcessMessage(t) ==
    /\ spc[t] \in {"idle", "done"}
    /\ sturns < MaxSessionTurns
    /\ sturns' = sturns + 1
    /\ \E sid \in SessionIDs, msg \in FlowInputs :
        SGoto(t, "goc_get",
              [NoSessionLocals EXCEPT !.sid = sid, !.msg = msg, !.flow = TRUE])
    /\ UNCHANGED <<states, heap, clock, notSession>>

\* Manager.ProcessMessage: m.flow.ProcessInput(ctx, state, message), which
\* writes through the pointer GetOrCreateState returned
FlowProcessInput(t) ==
    /\ spc[t] = "process_input"
    /\ \E out \in ProcessInput(heap[sloc[t].state], sloc[t].msg) :
        /\ heap' = [heap EXCEPT ![sloc[t].state] = out.state]
        /\ LET loc == [sloc[t] EXCEPT
                        !.bare = @ + (IF out.state # heap[sloc[t].state] THEN 1 ELSE 0),
                        !.step = heap[sloc[t].state].CurrentStep,
                        !.ends = { o.state.CurrentStep :
                                    o \in ProcessInput(heap[sloc[t].state], sloc[t].msg) }]
           IN IF out.err # ""
              THEN SGoto(t, "done", [loc EXCEPT !.err = "process message failed",
                                                !.ret = <<>>])
              ELSE SRespond(t, loc, out.response)
    /\ UNCHANGED <<states, clock, sturns, notSession>>

\* a caller enters Manager.ResetConversation
CallResetConversation(t) ==
    /\ spc[t] \in {"idle", "done"}
    /\ sturns < MaxSessionTurns
    /\ sturns' = sturns + 1
    /\ \E sid \in SessionIDs :
        SGoto(t, "reset_get",
              [NoSessionLocals EXCEPT !.op = "ResetConversation", !.sid = sid])
    /\ UNCHANGED <<states, heap, clock, notSession>>

\* ResetConversation: GetState, which takes and releases the read lock
ResetGetState(t) ==
    /\ spc[t] = "reset_get"
    /\ IF Exists(sloc[t].sid)
       THEN SGoto(t, "reset_write", [sloc[t] EXCEPT !.state = states[sloc[t].sid]])
       ELSE SGoto(t, "done", [sloc[t] EXCEPT !.err = "ErrStateNotFound"])
    /\ UNCHANGED <<states, heap, clock, sturns, notSession>>

\* ResetConversation: the four assignments through the pointer
ResetWrite(t) ==
    /\ spc[t] = "reset_write"
    /\ heap' = [heap EXCEPT ![sloc[t].state] =
                    [@ EXCEPT !.CurrentStep = "greeting", !.Context = <<>>,
                              !.History = <<>>, !.LastActivity = clock]]
    /\ SGoto(t, "done", [sloc[t] EXCEPT !.bare = @ + 1])
    /\ UNCHANGED <<states, clock, sturns, notSession>>

FlowStep(t) ==
    \/ ManagerProcessMessage(t)
    \/ FlowProcessInput(t)
    \/ CallResetConversation(t)
    \/ ResetGetState(t)
    \/ ResetWrite(t)

\* ------------------------------------------------------------------------
\* Direct calls on the StateManager, each under sm.mutex from entry to return
\* ------------------------------------------------------------------------
StoreRoles == {"user", "assistant"}
StoreContents == {OrderText}

\* a call is made while the caller is in no turn
StoreCall(t) ==
    /\ spc[t] \in {"idle", "done"}
    /\ sturns < MaxStoreCalls
    /\ sturns' = sturns + 1

\* StateManager.CreateState(sessionID, userID)
StoreCreateState(t) ==
    /\ StoreCall(t)
    /\ \E sid \in SessionIDs :
        /\ heap' = Append(heap, NewConversationState(sid, "default_user", clock))
        /\ states' = [k \in DOMAIN states \cup {sid} |->
                        IF k = sid THEN Len(heap) + 1 ELSE states[k]]
        /\ SGoto(t, "done", [NoSessionLocals EXCEPT !.op = "CreateState", !.sid = sid,
                                                    !.state = Len(heap) + 1])
    /\ UNCHANGED <<clock, notSession>>

\* StateManager.AddMessage(sessionID, role, content, nil)
StoreAddMessage(t) ==
    /\ StoreCall(t)
    /\ \E sid \in SessionIDs, role \in StoreRoles, content \in StoreContents :
        LET call == [NoSessionLocals EXCEPT !.op = "AddMessage", !.sid = sid,
                                            !.role = role, !.msg = content]
        IN IF Exists(sid)
           THEN /\ UpdateState(sid, AddMessage(Current(sid), role, content, clock))
                /\ SGoto(t, "done", call)
           ELSE /\ SGoto(t, "done", [call EXCEPT !.err = "ErrStateNotFound"])
                /\ UNCHANGED <<states, heap>>
    /\ UNCHANGED <<clock, notSession>>

\* StateManager.ClearExpiredStates(expiration)
StoreClearExpiredStates(t) ==
    /\ StoreCall(t)
    /\ \E expiration \in 0..MaxClock :
        LET expired == { sid \in DOMAIN states : Expired(Current(sid), clock, expiration) }
        IN /\ states' = Without(states, expired)
           /\ SGoto(t, "done", [NoSessionLocals EXCEPT !.op = "ClearExpiredStates",
                                                       !.expiration = expiration,
                                                       !.swept = expired])
    /\ UNCHANGED <<heap, clock, notSession>>

StoreKeys == {"order_id", "refund_reason"}
StoreValues == {DeliveredID, ReasonText}

\* StateManager.SetCurrentStep(sessionID, step)
StoreSetCurrentStep(t) ==
    /\ StoreCall(t)
    /\ \E sid \in SessionIDs, step \in StepNames :
        LET call == [NoSessionLocals EXCEPT !.op = "SetCurrentStep", !.sid = sid,
                                            !.step = step]
        IN IF Exists(sid)
           THEN /\ UpdateState(sid, SetCurrentStep(Current(sid), step, clock))
                /\ SGoto(t, "done", call)
           ELSE /\ SGoto(t, "done", [call EXCEPT !.err = "ErrStateNotFound"])
                /\ UNCHANGED <<states, heap>>
    /\ UNCHANGED <<clock, notSession>>

\* StateManager.SetContext(sessionID, key, value)
StoreSetContext(t) ==
    /\ StoreCall(t)
    /\ \E sid \in SessionIDs, key \in StoreKeys, value \in StoreValues :
        LET call == [NoSessionLocals EXCEPT !.op = "SetContext", !.sid = sid,
                                            !.key = key, !.value = value]
        IN IF Exists(sid)
           THEN /\ UpdateState(sid, SetContext(Current(sid), key, value, clock))
                /\ SGoto(t, "done", call)
           ELSE /\ SGoto(t, "done", [call EXCEPT !.err = "ErrStateNotFound"])
                /\ UNCHANGED <<states, heap>>
    /\ UNCHANGED <<clock, notSession>>

StoreStep(t) ==
    \/ StoreCreateState(t)
    \/ StoreAddMessage(t)
    \/ StoreSetCurrentStep(t)
    \/ StoreSetContext(t)
    \/ StoreClearExpiredStates(t)

\* no turn is in progress
BetweenTurns == \A t \in Threads : spc[t] \in {"idle", "done"}

Init ==
    /\ tools = NewToolManager
    /\ wstate = NewState
    /\ wpc = [t \in Threads |-> "idle"]
    /\ wloc = [t \in Threads |-> NoLocals]
    /\ wturns = 0
    /\ wcalls = 0
    /\ rlog = <<>>
    /\ rpc = [t \in Threads |-> "idle"]
    /\ rloc = [t \in Threads |-> NoRegistryCall]
    /\ rcalls = 0
    /\ plugins = <<>>
    /\ pluginFunctions = <<>>
    /\ pmLock = [writer |-> 0, readers |-> {}]
    /\ ppc = [t \in Threads |-> "idle"]
    /\ ploc = [t \in Threads |-> NoCall]
    /\ plast = Update("none", <<>>, <<>>, Unopenable, "", <<>>, <<>>)
    /\ states = <<>>
    /\ heap = <<>>
    /\ clock = 0
    /\ spc = [t \in Threads |-> "idle"]
    /\ sloc = [t \in Threads |-> NoSessionLocals]
    /\ sturns = 0
    /\ mm = NewModelManager
    /\ mmLock = [writer |-> 0, readers |-> {}]
    /\ mpc = [t \in Threads |-> "idle"]
    /\ mloc = [t \in Threads |-> NoModelCall]
    /\ mcalls = 0

NextWorkflow == \E t \in {1} : WorkflowStep(t)
SpecWorkflow == Init /\ [][NextWorkflow]_vars

\* one goroutine runs turns whose ctx the caller may cancel
NextWorkflowCancel == \E t \in {1} : WorkflowStep(t) \/ Cancel(t)
SpecWorkflowCancel == Init /\ [][NextWorkflowCancel]_vars

\* concurrent requests reach the Workflow through the service only
ServiceStep(t) ==
    \/ ServiceProcessMessage(t)
    \/ Reset(t)
    \/ AppendUser(t)
    \/ LoopTest(t)
    \/ CallModel(t)
    \/ CallModelFails(t)
    \/ AppendAssistant(t)
    \/ Branch(t)
    \/ ExecuteToolCall(t)
    \/ Return(t)

NextWorkflowConc ==
    \E t \in Threads : ServiceStep(t) /\ wcalls' <= MaxConcModelCalls
SpecWorkflowConc == Init /\ [][NextWorkflowConc]_vars

SpecRegistry == Init /\ [][NextRegistry]_vars
SpecRegistryConc == Init /\ [][NextRegistryConc]_vars

SpecPlugin == Init /\ [][NextPlugin]_vars

\* goroutines are scheduled fairly and sync.RWMutex does not starve a
\* waiter: a step that stays possible is taken, and a lock that keeps
\* becoming free is obtained
PluginFairness ==
    \A t \in Threads :
        /\ WF_vars(LoadPluginBody(t))
        /\ WF_vars(UnloadPluginBody(t))
        /\ WF_vars(ReloadPluginBody(t))
        /\ WF_vars(GetPluginFunctionBody(t))
        /\ SF_vars(LoadPluginLock(t))
        /\ SF_vars(UnloadPluginLock(t))
        /\ SF_vars(ReloadPluginLock(t))
        /\ SF_vars(GetPluginFunctionLock(t))
        /\ WF_vars(ReloadAllPluginsBody(t))
        /\ WF_vars(LoadAllPluginsLoop(t))
        /\ SF_vars(ReloadAllPluginsLock(t))
SpecPluginFair == SpecPlugin /\ PluginFairness
SpecPluginExec == Init /\ [][NextPluginExec]_vars

\* goroutines are scheduled fairly and sync.RWMutex does not starve a waiter
ModelFairness ==
    \A t \in Threads :
        /\ WF_vars(InitModelBody(t))
        /\ WF_vars(UpdateModelBody(t))
        /\ WF_vars(GetCurrentModelBody(t))
        /\ SF_vars(InitModelLock(t))
        /\ SF_vars(UpdateModelLock(t))
        /\ SF_vars(GetCurrentModelLock(t))
SpecModelFair == Init /\ [][NextModel]_vars /\ ModelFairness

\* one goroutine runs turns; sessions are removed and swept between turns
NextSession ==
    \/ \E t \in {1} : TurnStep(t)
    \/ Tick
    \/ BetweenTurns /\ RemoveState
    \/ BetweenTurns /\ ClearExpiredStates
SpecSession == Init /\ [][NextSession]_vars

\* one goroutine runs turns of both step machines on the same sessions
NextSteps == \E t \in {1} : TurnStep(t) \/ FlowStep(t)
SpecSteps == Init /\ [][NextSteps]_vars

\* one goroutine calls the StateManager while time passes
NextStore ==
    \/ \E t \in {1} : StoreStep(t)
    \/ Tick
SpecStore == Init /\ [][NextStore]_vars

\* one goroutine runs the turns of a customer in one session, which is
\* never removed
NextCustomer ==
    \E t \in {1} :
        \/ TurnStep(t) /\ sloc'[t].sid = "s1"
        \/ CustomerMessage(t)
SpecCustomer == Init /\ [][NextCustomer]_vars

\* one goroutine runs turns of both step machines while another removes the
\* session of the step-machine turn in progress
NextRemoval ==
    \E t \in {1} : TurnStep(t) \/ FlowStep(t) \/ RemoveStateDuringTurn(t)
SpecRemoval == Init /\ [][NextRemoval]_vars

\* two goroutines run turns on the same session
ConcSessionIDs == {"s1"}
NextSessionConc ==
    \E t \in Threads :
        /\ TurnStep(t)
        /\ sturns' <= MaxConcSessionTurns
        /\ sloc'[t].sid \in ConcSessionIDs
SpecSessionConc == Init /\ [][NextSessionConc]_vars


\* ------------------------------------------------------------------------
\* Properties of the agentic loop
\* ------------------------------------------------------------------------
InTurn(t) == wpc[t] \notin {"idle", "done"}
Returned(t) == wpc[t] = "done" /\ wloc[t].err = ""

\* C1: for a model that returns at least one tool call in every response,
\* a turn makes no more than MaxIterations model calls (it stops within the
\* iteration bound instead of looping on).
C1_ToolLoopBounded ==
    \A t \in Threads :
        wloc[t].allTool => wloc[t].nCalls <= MaxIterations

\* C2: a call to a tool that is not in the registry does not abort the
\* turn: it leaves a tool result with the call's id and an error, every
\* later model call of the turn is handed that error as a tool message,
\* and the turn ends with an error only when the model client fails (or no
\* model call was made at all); a turn that returns a value ended on a
\* response without tool calls.
C2_UnknownToolFedBack ==
    \A t \in Threads :
        LET l == wloc[t] IN
        /\ \A j \in 1..Len(l.executed) :
            ~l.executed[j].known =>
                /\ \E i \in 1..Len(wstate.ToolResults) :
                    /\ wstate.ToolResults[i].ToolCallID = l.executed[j].ID
                    /\ wstate.ToolResults[i].Error =
                            <<"tool_not_exist", l.executed[j].Name>>
                /\ l.executed[j].iter < l.nCalls =>
                    \E m \in 1..Len(l.sent) :
                        /\ l.sent[m].Role = "tool"
                        /\ l.sent[m].Content =
                            <<"tool_error",
                              <<"tool_not_exist", l.executed[j].Name>>>>
        /\ (wpc[t] = "done" /\ l.err # "") =>
                \/ l.err = "model_failed"
                \/ l.err = "no_valid_reply" /\ l.nCalls = 0
        /\ Returned(t) => l.lastResp.ToolCalls = <<>>

\* a turn that called an unregistered tool, went on and returned an answer
C2_Witness ==
    /\ Returned(1)
    /\ wloc[1].ret # NoText
    /\ \E j \in 1..Len(wloc[1].executed) :
        /\ ~wloc[1].executed[j].known
        /\ wloc[1].executed[j].iter < wloc[1].nCalls

\* C3: a turn is complete exactly once a model response without tool calls
\* has been processed; the value returned is that response's text; no model
\* call and no tool invocation follows that response within the turn.
C3_CompleteAtFirstFinalResponse ==
    \A t \in Threads :
        LET l == wloc[t] IN
        /\ l.afterFinal = 0
        /\ l.finalSeen <= 1
        /\ (wpc[t] \in {"loop", "ret"} /\ l.nCalls > 0) =>
                (wstate.IsComplete <=> l.finalSeen = 1)
        /\ (wpc[t] = "tools") => (~wstate.IsComplete /\ l.finalSeen = 0)
        /\ Returned(t) =>
                /\ l.finalSeen = 1
                /\ l.lastResp.ToolCalls = <<>>
                /\ l.ret = l.lastResp.Content

\* a turn that returned the text of its second response, after tool calls
C3_Witness ==
    /\ Returned(1)
    /\ wloc[1].nCalls >= 2
    /\ Len(wloc[1].executed) > 0
    /\ wloc[1].ret = <<"reply", wloc[1].turn, wloc[1].nCalls>>

\* C10: concurrent turns are isolated: the message list a turn hands to
\* the model holds only its own user message and its own model replies,
\* and a turn returns the text of its own last model response.
C10_TurnsIsolated ==
    \A t \in Threads :
        LET l == wloc[t] IN
        /\ \A m \in 1..Len(l.sent) :
            /\ l.sent[m].Role = "user" => l.sent[m].Content = l.user
            /\ (l.sent[m].Role = "assistant" /\ l.sent[m].Content # NoText) =>
                    l.sent[m].Content[2] = l.turn
        /\ Returned(t) => l.ret = l.lastResp.Content

\* ------------------------------------------------------------------------
\* Properties of the tool registry
\* ------------------------------------------------------------------------
LastCall == rlog[Len(rlog)]

\* C7: registering a name the registry already holds fails with a
\* duplicate error and keeps the tool registered before; registering a name
\* right after its successful unregister succeeds and binds the new tool.
C7_DuplicateThenReregister ==
    Len(rlog) > 0 =>
        /\ (LastCall.op = "register" /\ LastCall.prev # -1) =>
                /\ LastCall.err = "duplicate"
                /\ Bound(tools, LastCall.name) = LastCall.prev
        /\ (/\ Len(rlog) >= 2
            /\ LastCall.op = "register"
            /\ rlog[Len(rlog) - 1].op = "unregister"
            /\ rlog[Len(rlog) - 1].err = ""
            /\ rlog[Len(rlog) - 1].name = LastCall.name
            /\ LastCall.obj # -1) =>
                /\ LastCall.err = ""
                /\ Bound(tools, LastCall.name) = LastCall.obj

\* a name was unregistered and registered again with another tool object;
\* a further register of the name is refused and the new object stays bound
C7_Witness ==
    /\ Len(rlog) = 2
    /\ rlog[1].op = "register" /\ rlog[1].err = ""
    /\ rlog[1].name = "invoice_tool" /\ rlog[1].obj = 1
    /\ rlog[2].op = "register" /\ rlog[2].err = "duplicate"
    /\ rlog[2].name = "invoice_tool" /\ rlog[2].obj = 0
    /\ Bound(tools, "invoice_tool") = 1

\* ------------------------------------------------------------------------
\* Properties of the plugin manager
\* ------------------------------------------------------------------------
ToolOperations(art) == { m \in art.methods : IsToolMethod(m) }
Loads(art) == art.opens /\ art.entry = "func() interface{}"

C6_ReloadSucceeds ==
    \A t \in Threads :
        (ppc[t] = "reload_lock" /\ ploc[t].name \in DOMAIN plugins)
            ~> (/\ ppc[t] = "done"
                /\ Loads(plast.art) =>
                    /\ ploc[t].err = ""
                    /\ ploc[t].name \in DOMAIN plugins
                    /\ FuncNamesOf(plugins[ploc[t].name])
                            \subseteq DOMAIN pluginFunctions)

\* ------------------------------------------------------------------------
\* Properties of the session store and the step machine
\* ------------------------------------------------------------------------
\* the turn of goroutine t returned a response and its session is in the table
TurnDone(t) ==
    /\ spc[t] = "done"
    /\ sloc[t].err = ""
    /\ Exists(sloc[t].sid)

\* the history is that of a session whose first input had refund intent and
\* whose second input carried an order id
RefundOpening(h) ==
    /\ Len(h) >= 2
    /\ detectIntent(h[1].Content) = "refund_request"
RefundOrderGiven(h) ==
    /\ Len(h) >= 4
    /\ RefundOpening(h)
    /\ extractOrderID(h[3].Content) # <<>>

\* C4: on a fresh session, a first input with refund intent leaves the
\* session in refund_request and is answered by the request for the order
\* id; a second input carrying an order id stores it under order_id, leaves
\* the step refund_request and is answered by the request for the reason;
\* the third input is stored as the reason and, when the submission
\* succeeds, is answered by the confirmation with currentStep = greeting.
C4_RefundScenario ==
    \A t \in Threads : TurnDone(t) =>
        LET s == Current(sloc[t].sid)
            h == s.History
        IN /\ (Len(h) = 2 /\ RefundOpening(h)) =>
                /\ s.CurrentStep = "refund_request"
                /\ h[2] = HistoryMessage("assistant", AskOrderIDForRefund)
                /\ sloc[t].ret = AskOrderIDForRefund
           /\ (Len(h) = 4 /\ RefundOrderGiven(h)) =>
                /\ "order_id" \in DOMAIN s.Context
                /\ s.Context["order_id"] = extractOrderID(h[3].Content)
                /\ "refund_reason" \notin DOMAIN s.Context
                /\ s.CurrentStep = "refund_request"
                /\ h[4] = HistoryMessage("assistant",
                            AskReasonResponse(extractOrderID(h[3].Content)))
                /\ sloc[t].ret = h[4].Content
           /\ (Len(h) = 6 /\ RefundOrderGiven(h)) =>
                /\ "refund_reason" \in DOMAIN s.Context
                /\ s.Context["refund_reason"] = h[5].Content
                /\ sloc[t].refund \in {"ok", "failed"}
                /\ sloc[t].refund = "ok" =>
                    /\ s.CurrentStep = "greeting"
                    /\ h[6] = HistoryMessage("assistant",
                                RefundSubmittedResponse(
                                    extractOrderID(h[3].Content), h[5].Content))
                    /\ sloc[t].ret = h[6].Content

\* the three turns of the scenario were run and the refund was submitted
C4_Witness ==
    /\ TurnDone(1)
    /\ sloc[1].refund = "ok"
    /\ LET s == Current(sloc[1].sid)
       IN /\ Len(s.History) = 6
          /\ s.History[1] = HistoryMessage("user", RefundText)
          /\ s.History[3] = HistoryMessage("user", DeliveredID)
          /\ s.History[5] = HistoryMessage("user", ReasonText)
          /\ s.History[6].Content = RefundSubmittedResponse(DeliveredID, ReasonText)
          /\ s.CurrentStep = "greeting"

\* C8: the session GetOrCreateState creates for an id that is not in the
\* table has currentStep "greeting", an empty context, an empty history
\* and createdAt = lastActivity, and it is the session of that id.
C8_FreshSession ==
    \A t \in Threads : (spc[t] = "add_user" /\ sloc[t].created) =>
        /\ Exists(sloc[t].sid)
        /\ states[sloc[t].sid] = sloc[t].state
        /\ LET s == heap[sloc[t].state]
           IN /\ s.SessionID = sloc[t].sid
              /\ s.CurrentStep = "greeting"
              /\ DOMAIN s.Context = {}
              /\ Len(s.History) = 0
              /\ s.CreatedAt = s.LastActivity

\* a session is created again after its id was removed, at a later time
C8_Witness ==
    /\ spc[1] = "add_user"
    /\ sloc[1].created
    /\ Len(heap) > 1
    /\ heap[sloc[1].state].CreatedAt > 0
    /\ heap[1].SessionID = sloc[1].sid

\* C9: a user message appended by a turn stays in the history of its
\* session at the position it was appended at, under every interleaving of
\* turns (no session is removed in these runs).
C9_HistoryAppendOnly ==
    \A t \in Threads : sloc[t].userPos > 0 =>
        /\ Exists(sloc[t].sid)
        /\ LET h == Current(sloc[t].sid).History
           IN /\ Len(h) >= sloc[t].userPos
              /\ h[sloc[t].userPos] = HistoryMessage("user", sloc[t].msg)

\* ------------------------------------------------------------------------
\* Properties of the plugin manager: termination, errors, the registry
\* ------------------------------------------------------------------------
\* C11: every call on the plugin manager (load, unload, reload, reload-all,
\* lookup) that has started eventually returns, and its goroutine then holds
\* pm.mu neither as writer nor as reader.
C11_OperationsReturn ==
    \A t \in Threads :
        (ppc[t] \notin {"idle", "done"})
            ~> (/\ ppc[t] = "done"
                /\ pmLock.writer # t
                /\ t \notin pmLock.readers)

\* C12: an unload of a plugin that is not loaded fails with the not-loaded
\* error and leaves both tables as they were; an unload succeeds exactly
\* when the plugin was loaded, the plugin is then absent, and an unload of
\* the same name made next fails.
C12_UnloadNotLoaded ==
    plast.op = "unload" =>
        /\ plast.err \in {"", "not_loaded"}
        /\ plast.err = "not_loaded" <=> plast.name \notin DOMAIN plast.pre.plugins
        /\ plast.err = "not_loaded" =>
            /\ plugins = plast.pre.plugins
            /\ pluginFunctions = plast.pre.funcs
        /\ plast.err = "" =>
            /\ plast.name \notin DOMAIN plugins
            /\ UnloadPluginResult(plugins, pluginFunctions, plast.name).err
                    = "not_loaded"

\* an unload of a plugin that is not loaded was made while another plugin,
\* with tools, is loaded
C12_Witness ==
    /\ plast.op = "unload"
    /\ plast.err = "not_loaded"
    /\ ppc[1] = "done"
    /\ ploc[1].err = "not_loaded"
    /\ \E o \in DOMAIN plugins : plugins[o].Tools # <<>>

\* C13: from the moment ReloadPlugin has removed the old tools and until its
\* load step has succeeded, so in particular when the load step does not
\* succeed, the plugin is absent from the plugin table and none of its
\* tools is in the tool table.
C13_FailedReloadLeavesUnloaded ==
    \A t \in Threads :
        (/\ ploc[t].op = "reload"
         /\ ploc[t].caller = "reload"
         /\ ~(ppc[t] = "done" /\ ploc[t].err = ""))
            => /\ ploc[t].name \notin DOMAIN plugins
               /\ \A m \in {<<"A">>, <<"B">>, <<"H">>, <<"P">>} :
                    FuncName(ploc[t].name, m) \notin DOMAIN pluginFunctions

\* the name under which the orchestrator would call a plugin function
RECURSIVE GoString(_)
GoString(text) == IF text = <<>> THEN "" ELSE Head(text) \o GoString(Tail(text))

\* C14: every function in the plugin manager's tool table is registered in
\* the tool registry of the workflow: a tool call with its name is executed
\* by executeTool and the name is in the catalogue of the system prompt.
C14_PluginToolsRegistered ==
    \A f \in DOMAIN pluginFunctions :
        /\ GetTool(tools, GoString(f)).exists
        /\ GoString(f) \in BuildSystemPrompt(tools)[2]
        /\ \A out \in ExecuteTool(tools, [ID |-> <<1, 1, 1>>, Name |-> GoString(f)]) :
            out.err # <<"tool_not_exist", GoString(f)>>

\* ------------------------------------------------------------------------
\* Properties of the step machine: order query, responses
\* ------------------------------------------------------------------------
\* C15: a turn handled in step order_query whose input contains an order id
\* stores the id, upper-cased, under order_id; when the lookup of that id
\* succeeds the turn answers with the order and ends with
\* currentStep = greeting.
C15_OrderQueryTurn ==
    \A t \in Threads :
        (TurnDone(t) /\ sloc[t].step = "order_query"
            /\ extractOrderID(sloc[t].msg) # <<>>) =>
        LET s == Current(sloc[t].sid)
        IN /\ "order_id" \in DOMAIN s.Context
           /\ s.Context["order_id"] = extractOrderID(sloc[t].msg)
           /\ \A i \in 1..Len(s.Context["order_id"]) :
                ~IsLower(s.Context["order_id"][i])
           /\ Query(s.Context["order_id"]).ok =>
                /\ s.CurrentStep = "greeting"
                /\ sloc[t].ret = OrderInfoResponse(s.Context["order_id"])

\* a lower-case order id given in step order_query was stored upper-cased,
\* its lookup succeeded and the session is back in greeting
C15_Witness ==
    /\ TurnDone(1)
    /\ sloc[1].step = "order_query"
    /\ sloc[1].msg = LowerCaseID
    /\ Current(sloc[1].sid).Context["order_id"] = ShippedID
    /\ Current(sloc[1].sid).CurrentStep = "greeting"
    /\ sloc[1].ret = OrderInfoResponse(ShippedID)

\* C16: every turn of the step machine returns no error and a response that
\* is not empty, also when the order lookup or the refund submission fails
\* (no session is removed while a turn is in progress in these runs).
C16_TurnAlwaysResponds ==
    \A t \in Threads : spc[t] = "done" =>
        /\ sloc[t].err = ""
        /\ Len(sloc[t].ret) > 0
        /\ sloc[t].ret = sloc[t].resp

\* a turn whose refund submission failed has returned its response
C16_Witness ==
    /\ spc[1] = "done"
    /\ sloc[1].refund = "failed"
    /\ sloc[1].err = ""
    /\ sloc[1].ret = RefundFailedResponse(
            SubmitRefund(sloc[1].orderID, sloc[1].reason, TRUE).err)
    /\ sloc[1].orderID = UnknownID

\* C17: the currentStep of every session, and of every session state a turn
\* still holds, names a registered step, after any sequence of turns of the
\* keyword step machine and of the step registry flow.
C17_CurrentStepKnown ==
    /\ \A sid \in DOMAIN states : Current(sid).CurrentStep \in StepNames
    /\ \A i \in DOMAIN heap : heap[i].CurrentStep \in StepNames

\* a flow turn has moved a session out of greeting after a turn of the
\* keyword step machine had run on it
C17_Witness ==
    /\ spc[1] = "done"
    /\ sloc[1].flow
    /\ sloc[1].err = ""
    /\ Exists(sloc[1].sid)
    /\ Current(sloc[1].sid).CurrentStep = "refund_request"
    /\ Len(Current(sloc[1].sid).History) = 4
    /\ Current(sloc[1].sid).History[2].Content = GreetingResponse

\* the call of the StateManager that this step makes, if it makes one
StoreCallMade(op) == sturns' = sturns + 1 /\ sloc'[1].op = op

\* C18: AddMessage on a session that does not exist fails with
\* ErrStateNotFound and creates no session; on an existing session it appends
\* exactly one message, the given one, at the end of the history, sets
\* lastActivity to a time not earlier than the previous one and changes
\* nothing else.
C18_AddMessage ==
    [][ StoreCallMade("AddMessage") =>
          LET sid == sloc'[1].sid
          IN IF sid \notin DOMAIN states
             THEN /\ sloc'[1].err = "ErrStateNotFound"
                  /\ states' = states
                  /\ heap' = heap
             ELSE /\ sloc'[1].err = ""
                  /\ states' = states
                  /\ Len(heap') = Len(heap)
                  /\ \A i \in DOMAIN heap : i # states[sid] => heap'[i] = heap[i]
                  /\ heap'[states[sid]].History =
                        Append(Current(sid).History,
                               HistoryMessage(sloc'[1].role, sloc'[1].msg))
                  /\ heap'[states[sid]].LastActivity >= Current(sid).LastActivity
                  /\ [heap'[states[sid]] EXCEPT !.History = <<>>, !.LastActivity = 0]
                       = [Current(sid) EXCEPT !.History = <<>>, !.LastActivity = 0]
      ]_vars

\* AddMessage has just failed on a session that does not exist, after it
\* had appended a second message to the history of a session that does
C18_Witness ==
    /\ sloc[1].op = "AddMessage"
    /\ sloc[1].err = "ErrStateNotFound"
    /\ ~Exists(sloc[1].sid)
    /\ \E sid \in DOMAIN states : Len(Current(sid).History) = 2

\* C19: ClearExpiredStates(expiration) removes every session whose
\* lastActivity is older than now - expiration and no other session, and
\* leaves the remaining sessions as they were.
C19_SweepExpired ==
    [][ StoreCallMade("ClearExpiredStates") =>
          /\ DOMAIN states' =
                { sid \in DOMAIN states :
                    ~(Current(sid).LastActivity < clock - sloc'[1].expiration) }
          /\ \A sid \in DOMAIN states' : states'[sid] = states[sid]
          /\ heap' = heap
      ]_vars

\* a sweep has removed one session and kept another one, which has been idle
\* for no longer than the expiration
C19_Witness ==
    /\ sloc[1].op = "ClearExpiredStates"
    /\ sloc[1].swept # {}
    /\ \E sid \in DOMAIN states :
          clock - Current(sid).LastActivity = sloc[1].expiration

\* C20: from a successful UnregisterTool(name) until name is registered
\* again, no GetTool and no CallTool of name succeeds and name is not in the
\* registry; a successful UnregisterTool removes that name only and leaves
\* every other tool as it was; UnregisterTool of a name that is not
\* registered fails with the not-found error and changes nothing.
C20_Unregister ==
    /\ [](Len(rlog) > 0 =>
            /\ \A n \in LastCall.gone : ~GetTool(tools, n).exists
            /\ (LastCall.op \in {"lookup", "call"} /\ LastCall.name \in LastCall.gone) =>
                    LastCall.err = "not_found")
    /\ [][ (rlog' # rlog /\ rlog'[Len(rlog')].op = "unregister") =>
             LET call == rlog'[Len(rlog')]
             IN IF call.name \in DOMAIN tools
                THEN /\ call.err = ""
                     /\ DOMAIN tools' = DOMAIN tools \ {call.name}
                     /\ \A n \in DOMAIN tools' : tools'[n] = tools[n]
                ELSE /\ call.err = "not_found"
                     /\ tools' = tools
       ]_vars

\* a tool was unregistered; later a lookup of another tool succeeded and
\* then a call of the unregistered one was refused
C20_Witness ==
    /\ Len(rlog) = 2
    /\ rlog[1].op = "lookup" /\ rlog[1].err = ""
    /\ rlog[2].op = "call" /\ rlog[2].err = "not_found"
    /\ rlog[2].name \in rlog[1].gone
    /\ rlog[2].name # rlog[1].name

\* C21: a RegisterTool call that returns success has added its tool to a
\* registry that held no tool of that name when it wrote: of two concurrent
\* registrations of one name, the second fails with the duplicate error and
\* does not replace what the first one registered.
C21_RegisterAtomic ==
    \A t \in Threads :
        (rpc[t] = "done" /\ rloc[t].op = "register" /\ rloc[t].err = "") =>
            ~rloc[t].replaced

Framed(state, step, context) ==
    [state EXCEPT !.CurrentStep = step, !.Context = context, !.LastActivity = 0]

\* C23: SetCurrentStep and SetContext on a session that does not exist fail
\* with ErrStateNotFound and create no session; on an existing session
\* SetCurrentStep changes the step only, SetContext the one key only, and
\* both set lastActivity of that session: its history, its other context
\* keys and every other session stay as they were.
C23_SetStepSetContext ==
    [][ (StoreCallMade("SetCurrentStep") \/ StoreCallMade("SetContext")) =>
          LET call == sloc'[1]
              sid == call.sid
              old == Current(sid)
              new == heap'[states[sid]]
          IN IF sid \notin DOMAIN states
             THEN /\ call.err = "ErrStateNotFound"
                  /\ states' = states
                  /\ heap' = heap
             ELSE /\ call.err = ""
                  /\ states' = states
                  /\ Len(heap') = Len(heap)
                  /\ \A i \in DOMAIN heap : i # states[sid] => heap'[i] = heap[i]
                  /\ new.LastActivity = clock
                  /\ new.LastActivity >= old.LastActivity
                  /\ IF call.op = "SetCurrentStep"
                     THEN new = [old EXCEPT !.CurrentStep = call.step,
                                            !.LastActivity = clock]
                     ELSE /\ Framed(new, "", <<>>) = Framed(old, "", <<>>)
                          /\ DOMAIN new.Context = DOMAIN old.Context \cup {call.key}
                          /\ new.Context[call.key] = call.value
                          /\ \A k \in DOMAIN old.Context :
                                k # call.key => new.Context[k] = old.Context[k]
      ]_vars

\* SetCurrentStep has just moved a session that holds a message and a
\* context key, set by an earlier SetContext, to another step
C23_Witness ==
    /\ sloc[1].op = "SetCurrentStep"
    /\ sloc[1].err = ""
    /\ Exists(sloc[1].sid)
    /\ Current(sloc[1].sid).CurrentStep = "refund_request"
    /\ DOMAIN Current(sloc[1].sid).Context = {"order_id"}
    /\ Len(Current(sloc[1].sid).History) = 1

\* C24: a turn of the agentic loop that returns no error returns a text
\* that is not empty.
C24_NoEmptyResponse ==
    \A t \in Threads : Returned(t) => wloc[t].ret # NoText

\* C25: once the context of an agentic turn is cancelled, the turn starts
\* no further tool invocation (nor model call) and, when it returns, it
\* returns an error and not a reply.
C25_CancelStopsTurn ==
    \A t \in Threads :
        wloc[t].cancelled =>
            /\ wloc[t].lateTools = 0
            /\ wpc[t] = "done" => wloc[t].err # ""

\* the keys a refund flow leaves in the context while it runs
TransientKeys == {"order_id", "refund_reason", "awaiting_refund_reason"}

\* C26: when a turn has submitted a refund and reset the step to greeting,
\* the context of the session holds none of order_id, refund_reason and
\* awaiting_refund_reason.
C26_RefundClearsContext ==
    \A t \in Threads :
        (/\ TurnDone(t)
         /\ sloc[t].refund = "ok"
         /\ Current(sloc[t].sid).CurrentStep = "greeting") =>
            DOMAIN Current(sloc[t].sid).Context \cap TransientKeys = {}

\* C27: a turn handled in step greeting, whose input can only express the
\* intent, submits no refund: a submission uses an order id and a reason
\* given after the session entered refund_request.
C27_NoStaleSubmission ==
    \A t \in Threads :
        (sloc[t].step = "greeting" /\ ~sloc[t].flow) => sloc[t].refund = "none"

\* a session state in which handleRefundRequestStep answers every input
\* with "already submitted" and changes nothing
Trapped(state) ==
    /\ state.CurrentStep = "refund_request"
    /\ {"order_id", "refund_reason"} \subseteq DOMAIN state.Context

\* the session object i is in such a state and no turn is on its way to
\* the submission that could still reset its step
Stuck(i) ==
    /\ Trapped(heap[i])
    /\ \A t \in Threads :
          spc[t] \in {"start_get_state", "process_refund"} =>
              ~(Exists(sloc[t].sid) /\ states[sloc[t].sid] = i)

\* no step of a turn of the keyword step machine takes a session object out
\* of that state, whatever the input (holds under SpecCustomer and
\* SpecSession)
StuckStays ==
    [][ \A i \in DOMAIN heap : Stuck(i) => Stuck(i)' ]_vars

\* C28: no session is trapped in a step other than greeting: no session is
\* in a state that no sequence of user inputs takes back to greeting, as a
\* session is that waits in refund_request with an order id and a reason
\* stored after its submission failed (StuckStays).
C28_NoTrappedSession ==
    \A sid \in DOMAIN states : ~Stuck(states[sid])

\* a turn of the step registry flow has run ProcessInput without error
FlowTurnRan(t) ==
    /\ sloc[t].flow
    /\ spc[t] \in {"add_assistant", "done"}
    /\ sloc[t].err = ""
    /\ sloc[t].ends # {}

\* C29: a turn of the step registry flow that starts in order_query with an
\* input containing an order id ends with currentStep = greeting, whatever
\* else the input contains.
C29_FlowOrderQueryEndsInGreeting ==
    \A t \in Threads :
        (/\ FlowTurnRan(t)
         /\ sloc[t].step = "order_query"
         /\ flowExtractOrderID(sloc[t].msg) # <<>>) =>
            heap[sloc[t].state].CurrentStep = "greeting"

\* C30: the step a turn of the step registry flow ends in is determined by
\* the starting step, the context and the input: the order in which
\* ProcessInput meets the registered steps makes no difference.
C30_FlowStepDetermined ==
    \A t \in Threads :
        FlowTurnRan(t) => Cardinality(sloc[t].ends) = 1

\* C31: every write of a session's currentStep, context or history is made
\* with the exclusive lock of the session table held: no turn and no reset
\* writes a session field through a pointer while it holds no lock.
C31_WritesUnderLock ==
    \A t \in Threads : sloc[t].bare = 0

\* C32: a turn of the step machine whose session was removed after its
\* GetOrCreateState returned and before its last AddMessage, and that no
\* other turn created again, returns an error and a removed session stays
\* removed until a later turn creates it.
C32_RemovedSessionFailsTurn ==
    \A t \in Threads :
        sloc[t].lost =>
            /\ ~Exists(sloc[t].sid)
            /\ spc[t] = "done" => sloc[t].err # "" /\ sloc[t].ret = <<>>
C32_Witness ==
    \E t \in Threads :
        /\ sloc[t].lost
        /\ spc[t] = "done"
        /\ sloc[t].err = "add assistant message failed"

\* C33: a turn of the step machine never invokes the language model: the
\* step it reads is greeting, order_query or refund_request, also when the
\* session is missing, so it never reaches the general chat path.
C33_NoModelInStepTurn ==
    \A t \in Threads : ~sloc[t].chat
C33_Witness ==
    \E t \in Threads :
        /\ spc[t] = "done"
        /\ sloc[t].lost
        /\ sloc[t].state # 0
        /\ heap[sloc[t].state].CurrentStep = "order_query"
        /\ sloc[t].step = "greeting"
        /\ detectIntent(sloc[t].msg) = "general"

\* the first n collected tool results answer the first n collected tool
\* calls, in order, each with a result or with an error
ResultsAnswerCalls(st, n) ==
    /\ Len(st.ToolResults) = n
    /\ n <= Len(st.ToolCalls)
    /\ \A i \in 1..n :
        /\ st.ToolResults[i].ToolCallID = st.ToolCalls[i].ID
        /\ st.ToolResults[i].Result = NoText \/ st.ToolResults[i].Error = NoText

\* C34: in a turn the tool calls of a response are executed one at a time
\* in the listed order, and at every iteration boundary the collected tool
\* results answer the collected tool calls one to one and in order: equal
\* length, the i-th result carrying the id of the i-th call.
C34_ResultsMatchCalls ==
    IF \E t \in Threads : wpc[t] = "tools"
    THEN \A t \in Threads :
            wpc[t] = "tools" =>
                ResultsAnswerCalls(wstate,
                    Len(wstate.ToolCalls) - Len(wloc[t].resp.ToolCalls)
                        + wloc[t].i - 1)
    ELSE ResultsAnswerCalls(wstate, Len(wstate.ToolCalls))
C34_Witness ==
    /\ wpc[1] = "loop"
    /\ Len(wstate.ToolResults) >= 3
    /\ \E i \in 1..Len(wstate.ToolResults) : wstate.ToolResults[i].Error # NoText
    /\ \E i \in 1..Len(wstate.ToolResults) : wstate.ToolResults[i].Result # NoText

\* the message list with the tool results of the last k tool calls only
MessagesWithLastResults(st, reg, k) ==
    <<Message("system", BuildSystemPrompt(reg))>>
    \o [i \in 1..Len(st.Messages) |->
            Message(st.Messages[i].Role, st.Messages[i].Content)]
    \o [i \in 1..k |->
            Message("tool", ToolMessageContent(
                st.ToolResults[Len(st.ToolResults) - k + i]))]

\* C35: at every model call of a turn the message list is the system prompt,
\* then the whole message history, then the tool messages of the tool
\* results of the iteration just before the call and of no earlier one.
C35_OnlyPreviousResults ==
    \A t \in Threads :
        wpc[t] = "model" =>
            /\ Len(wloc[t].resp.ToolCalls) <= Len(wstate.ToolResults)
            /\ BuildMessages(wstate, tools) =
                    MessagesWithLastResults(wstate, tools,
                                            Len(wloc[t].resp.ToolCalls))

\* C36: every call of Workflow.ProcessMessage invokes the model at least
\* once after it appended the user's message, and a text it returns is the
\* text of a model response of that call, also on a Workflow that completed
\* an earlier call and was not reset since.
C36_EveryCallAsksModel ==
    \A t \in Threads :
        wpc[t] = "done" =>
            /\ wloc[t].nCalls >= 1
            /\ wloc[t].err = "" => wloc[t].ret = wloc[t].lastResp.Content

\* C37: no loader lock is held while a plugin function executes, an
\* invocation whose function was obtained before an unload completes
\* unaffected, and the only invocations that fail are those whose lookup
\* found no function.
C37_OnlyLateLookupsFail ==
    \A t \in Threads :
        /\ ppc[t] = "exec_call" => pmLock.writer # t /\ t \notin pmLock.readers
        /\ ppc[t] = "done" /\ ploc[t].op = "exec" /\ ploc[t].fn # <<>>
                => ploc[t].err \in {"", "function_failed"}

\* C38: a call of ModelManager.UpdateModel always returns, with the new
\* model installed or with an error, and with the manager's lock released,
\* so that a later GetCurrentModel or GetCurrentModelInfo is never blocked
\* for ever.
C38_UpdateModelReturns ==
    \A t \in Threads :
        /\ mpc[t] = "update_lock"
                ~> (mpc[t] = "done" /\ mmLock.writer # t)
        /\ mpc[t] = "get_lock" ~> mpc[t] = "done"

\* C39: whenever no call on the plugin manager is in progress, the keys of
\* the function table are exactly the names plugin.tool of the tools of the
\* loaded plugins, after any calls of load, unload, reload and reload-all,
\* failed ones included.
C39_FunctionTableMatchesPlugins ==
    (\A t \in Threads : PluginIdle(t)) =>
        DOMAIN pluginFunctions =
            UNION { FuncNamesOf(plugins[n]) : n \in DOMAIN plugins }
C39_Witness ==
    /\ \A t \in Threads : PluginIdle(t)
    /\ plast.op = "unload" /\ plast.err = ""
    /\ plast.pre.funcs # pluginFunctions
    /\ plugins # <<>>
    /\ pluginFunctions # <<>>

====
